---- MODULE Spec2Model ----
(***************************************************************************)
(* Model of the concurrent contact-verification engine                     *)
(* (src/src/email_scraper.py, class ConcurrentContactVerifier).            *)
(*                                                                         *)
(* Python strings are sequences of one-character strings, so that          *)
(* lower-casing, stripping, prefix/suffix tests and substring tests are    *)
(* computed as the code computes them.                                     *)
(***************************************************************************)
EXTENDS Integers, Sequences, FiniteSets, TLC

\* ------------------------------------------------------------------------
\* Strings
\* ------------------------------------------------------------------------

UpperChars == <<"A","B","C","D","E","F","G","H","I","J","K","L","M",
                "N","O","P","Q","R","S","T","U","V","W","X","Y","Z">>

LowerChars == <<"a","b","c","d","e","f","g","h","i","j","k","l","m",
                "n","o","p","q","r","s","t","u","v","w","x","y","z">>

DigitChars == {"0","1","2","3","4","5","6","7","8","9"}

HexChars == DigitChars \cup {"a","b","c","d","e","f"}

LowerAlnumChars == DigitChars \cup {LowerChars[i] : i \in DOMAIN LowerChars}

WhitespaceChars == {" ", "\t", "\n", "\r"}

\* str.lower() on one character
LowerChar(c) ==
    IF \E i \in DOMAIN UpperChars : UpperChars[i] = c
    THEN LowerChars[CHOOSE i \in DOMAIN UpperChars : UpperChars[i] = c]
    ELSE c

\* str.lower()
Lower(s) == [i \in DOMAIN s |-> LowerChar(s[i])]

\* str.strip()
Strip(s) ==
    LET keep == {i \in DOMAIN s : s[i] \notin WhitespaceChars}
    IN  IF keep = {} THEN <<>>
        ELSE LET lo == CHOOSE i \in keep : \A j \in keep : i <= j
                 hi == CHOOSE i \in keep : \A j \in keep : j <= i
             IN  SubSeq(s, lo, hi)

\* str.startswith(t)
StartsWith(s, t) == Len(t) <= Len(s) /\ SubSeq(s, 1, Len(t)) = t

\* str.endswith(t)
EndsWith(s, t) == Len(t) <= Len(s) /\ SubSeq(s, Len(s) - Len(t) + 1, Len(s)) = t

\* t in s
Contains(s, t) ==
    \E i \in 1..(Len(s) - Len(t) + 1) : SubSeq(s, i, i + Len(t) - 1) = t

\* str.count(c) for a single character
CountChar(s, c) == Cardinality({i \in DOMAIN s : s[i] = c})

\* s[n:]
DropFirst(s, n) == SubSeq(s, n + 1, Len(s))

\* the part of s after its last occurrence of c (s.split(c)[-1])
LastPart(s, c) ==
    LET at == {i \in DOMAIN s : s[i] = c}
    IN  IF at = {} THEN s
        ELSE SubSeq(s, (CHOOSE i \in at : \A j \in at : j <= i) + 1, Len(s))

\* the part of s before its first occurrence of c (s.split(c)[0])
FirstPart(s, c) ==
    LET at == {i \in DOMAIN s : s[i] = c}
    IN  IF at = {} THEN s
        ELSE SubSeq(s, 1, (CHOOSE i \in at : \A j \in at : i <= j) - 1)

AllIn(s, chars) == \A i \in DOMAIN s : s[i] \in chars

\* ------------------------------------------------------------------------
\* Values of the JSON records
\* ------------------------------------------------------------------------

\* Python None, a key that is absent from the dict, and a JSON value that is
\* not a string (a number): markers that no character sequence equals.
None == <<"<None>">>

Absent == <<"<absent>">>

NonStr == <<"<number>">>

\* bool(v) for a value read from a record
Truthy(v) == v /= None /\ v /= Absent /\ v /= <<>>

\* dict.get(key, default)
Get(v, default) == IF v = Absent THEN default ELSE v

\* ------------------------------------------------------------------------
\* Validator tables (ConcurrentContactVerifier.__init__, is_valid_email)
\* ------------------------------------------------------------------------

invalid_email_extensions ==
    { <<".","p","n","g">>, <<".","j","p","g">>, <<".","j","p","e","g">>, <<".","g","i","f">>, <<".","s","v","g">>, <<".","w","e","b","p">>,
      <<".","i","c","o">>, <<".","b","m","p">>, <<".","c","s","s">>, <<".","j","s">>, <<".","h","t","m","l">>, <<".","h","t","m">>,
      <<".","p","d","f">>, <<".","d","o","c">>, <<".","d","o","c","x">>, <<".","x","l","s","x">>, <<".","z","i","p">>, <<".","r","a","r">>,
      <<".","m","p","4">>, <<".","m","p","3">>, <<".","a","v","i">>, <<".","m","o","v">>, <<".","w","o","f","f">>, <<".","t","t","f">>,
      <<".","j","s","o","n">>, <<".","x","m","l">>, <<".","t","x","t">>, <<".","l","o","g">>, <<".","t","m","p">>, <<".","c","a","c","h","e">>,
      <<".","t","i","f","f">>, <<".","t","i","f">>, <<".","e","p","s">>, <<".","p","s","d">>, <<".","a","i">>, <<".","s","k","e","t","c","h">>,
      <<".","f","i","g">>, <<".","x","d">>, <<".","i","n","d","d">>, <<".","r","a","w">>, <<".","c","r","2">>, <<".","n","e","f">>,
      <<".","a","r","w">>, <<".","d","n","g">>, <<".","o","r","f">>, <<".","r","w","2">>, <<".","p","e","f">>, <<".","s","r","2">>,
      <<".","3","g","p">>, <<".","f","l","v">>, <<".","m","k","v">>, <<".","w","m","v">>, <<".","w","e","b","m">>, <<".","m","4","v">>,
      <<".","m","4","a">>, <<".","a","a","c">>, <<".","f","l","a","c">>, <<".","o","g","g">>, <<".","w","a","v">>, <<".","w","m","a">>,
      <<".","o","p","u","s">>, <<".","m","i","d">>, <<".","m","i","d","i">>, <<".","k","a","r">>, <<".","w","o","f","f","2">>, <<".","e","o","t">>,
      <<".","o","t","f">>, <<".","s","w","f">>, <<".","f","l","a">>, <<".","a","s">>, <<".","s","c","s","s">>, <<".","s","a","s","s">>,
      <<".","l","e","s","s">>, <<".","s","t","y","l">>, <<".","c","o","f","f","e","e">>, <<".","t","s">>, <<".","j","s","x">>, <<".","t","s","x">>,
      <<".","v","u","e">>, <<".","s","v","e","l","t","e">>, <<".","p","h","p">>, <<".","a","s","p">>, <<".","a","s","p","x">>, <<".","j","s","p">>,
      <<".","c","f","m">>, <<".","c","g","i">>, <<".","p","l">>, <<".","p","y">>, <<".","r","b">>, <<".","g","o">>,
      <<".","r","s">>, <<".","k","t">>, <<".","s","w","i","f","t">>, <<".","d","a","r","t">>, <<".","s","c","a","l","a">>, <<".","c","l","j">>,
      <<".","h","s">>, <<".","e","l","m">>, <<".","p","u","r","s">>, <<".","m","l">>, <<".","f","s">>, <<".","v","b">>,
      <<".","c","s">>, <<".","j","a","v","a">>, <<".","c">>, <<".","c","p","p">>, <<".","h">>, <<".","h","p","p">>,
      <<".","c","c">>, <<".","c","x","x">>, <<".","m">>, <<".","m","m">>, <<".","s">>, <<".","a","s","m">>,
      <<".","s","q","l">>, <<".","d","b">>, <<".","s","q","l","i","t","e">>, <<".","m","d","b">>, <<".","a","c","c","d","b">>, <<".","d","b","f">>,
      <<".","b","a","c","k","u","p">>, <<".","b","a","k">>, <<".","o","l","d">>, <<".","o","r","i","g">>, <<".","s","a","v","e">>, <<".","t","e","m","p">>,
      <<".","l","o","c","k">>, <<".","p","i","d">>, <<".","s","o","c","k">>, <<".","e","r","r">>, <<".","o","u","t">>, <<".","t","r","a","c","e">>,
      <<".","d","u","m","p">>, <<".","c","o","r","e">>, <<".","c","r","a","s","h">>, <<".","d","m","p">> }

technical_domains ==
    { <<"s","e","n","t","r","y",".","i","o">>, <<"i","n","g","e","s","t",".","s","e","n","t","r","y",".","i","o">>,
      <<"s","e","n","t","r","y",".","w","i","x","p","r","e","s","s",".","c","o","m">>, <<"s","e","n","t","r","y",".","c","o","m">>,
      <<"g","o","o","g","l","e","t","a","g","m","a","n","a","g","e","r",".","c","o","m">>, <<"g","o","o","g","l","e","-","a","n","a","l","y","t","i","c","s",".","c","o","m">>,
      <<"f","a","c","e","b","o","o","k",".","c","o","m">>, <<"d","o","u","b","l","e","c","l","i","c","k",".","n","e","t">>,
      <<"g","o","o","g","l","e","s","y","n","d","i","c","a","t","i","o","n",".","c","o","m">>, <<"g","o","o","g","l","e","a","d","s","e","r","v","i","c","e","s",".","c","o","m">>,
      <<"c","l","o","u","d","f","l","a","r","e",".","c","o","m">>, <<"a","m","a","z","o","n","a","w","s",".","c","o","m">>,
      <<"g","o","o","g","l","e","a","p","i","s",".","c","o","m">>, <<"g","s","t","a","t","i","c",".","c","o","m">>,
      <<"j","s","d","e","l","i","v","r",".","n","e","t">>, <<"u","n","p","k","g",".","c","o","m">>,
      <<"c","d","n","j","s",".","c","l","o","u","d","f","l","a","r","e",".","c","o","m">>, <<"t","r","a","c","k","i","n","g",".","c","o","m">>,
      <<"a","n","a","l","y","t","i","c","s",".","c","o","m">>, <<"m","e","t","r","i","c","s",".","c","o","m">>,
      <<"c","d","n",".","c","o","m">>, <<"s","t","a","t","i","c",".","c","o","m">>,
      <<"a","s","s","e","t","s",".","c","o","m">>, <<"m","e","d","i","a",".","c","o","m">>,
      <<"i","m","g",".","c","o","m">>, <<"i","m","a","g","e","s",".","c","o","m">>,
      <<"f","o","n","t","s",".","c","o","m">>, <<"t","y","p","e","k","i","t",".","c","o","m">>,
      <<"a","d","o","b","e",".","c","o","m">>, <<"g","r","a","v","a","t","a","r",".","c","o","m">>,
      <<"d","i","s","q","u","s",".","c","o","m">>, <<"a","d","d","t","h","i","s",".","c","o","m">>,
      <<"s","h","a","r","e","t","h","i","s",".","c","o","m">>, <<"f","e","e","d","b","u","r","n","e","r",".","c","o","m">>,
      <<"f","e","e","d","p","r","o","x","y",".","g","o","o","g","l","e",".","c","o","m">>, <<"m","a","i","l","c","h","i","m","p",".","c","o","m">>,
      <<"c","o","n","s","t","a","n","t","c","o","n","t","a","c","t",".","c","o","m">>, <<"a","w","e","b","e","r",".","c","o","m">>,
      <<"g","e","t","r","e","s","p","o","n","s","e",".","c","o","m">>, <<"c","a","m","p","a","i","g","n","m","o","n","i","t","o","r",".","c","o","m">>,
      <<"v","e","r","t","i","c","a","l","r","e","s","p","o","n","s","e",".","c","o","m">>, <<"i","c","o","n","t","a","c","t",".","c","o","m">>,
      <<"m","a","d","m","i","m","i",".","c","o","m">>, <<"b","e","n","c","h","m","a","r","k",".","e","m","a","i","l">>,
      <<"s","e","n","d","i","n","b","l","u","e",".","c","o","m">>, <<"m","a","i","l","g","u","n",".","c","o","m">>,
      <<"s","e","n","d","g","r","i","d",".","c","o","m">>, <<"m","a","n","d","r","i","l","l",".","c","o","m">>,
      <<"p","o","s","t","m","a","r","k",".","c","o","m">>, <<"s","p","a","r","k","p","o","s","t",".","c","o","m">>,
      <<"s","e","s",".","a","m","a","z","o","n","a","w","s",".","c","o","m">> }

problematic_patterns ==
    { <<"a","j","a","x","-","l","o","a","d","e","r">>, <<"s","p","i","n","n","e","r">>, <<"l","o","a","d","i","n","g">>,
      <<"l","o","a","d","e","r">>, <<"k","i","t","_","m","o","b","i","l","e">>, <<"m","o","b","i","l","e","_","k","i","t">>,
      <<"r","e","s","p","o","n","s","i","v","e">>, <<"@","2","x">>, <<"@","3","x">>,
      <<"r","e","t","i","n","a">>, <<"t","h","u","m","b","n","a","i","l">>, <<"l","o","g","o">>,
      <<"i","n","g","e","s","t">>, <<"t","r","a","c","k","i","n","g">>, <<"a","n","a","l","y","t","i","c","s">>,
      <<"m","e","t","r","i","c","s">>, <<"s","e","n","t","r","y">>, <<"e","r","r","o","r">>,
      <<"c","r","a","s","h">>, <<"d","e","b","u","g">>, <<"a","p","i","_","k","e","y">>,
      <<"a","c","c","e","s","s","_","t","o","k","e","n">>, <<"s","e","s","s","i","o","n","_","i","d">>, <<"i","m","a","g","e">>,
      <<"i","m","g">>, <<"p","i","c","t","u","r","e">>, <<"p","h","o","t","o">>,
      <<"i","c","o","n">>, <<"a","s","s","e","t">>, <<"r","e","s","o","u","r","c","e">>,
      <<"s","t","a","t","i","c">>, <<"p","u","b","l","i","c">>, <<"e","x","a","m","p","l","e">>,
      <<"t","e","s","t">>, <<"s","a","m","p","l","e">>, <<"p","l","a","c","e","h","o","l","d","e","r">>,
      <<"d","u","m","m","y">>, <<"f","a","k","e">>, <<"i","n","v","a","l","i","d">>,
      <<"n","o","r","e","p","l","y">>, <<"d","o","n","o","t","r","e","p","l","y">> }

infrastructure_subdomains ==
    { <<"o","4","0","8","5","8","7">>, <<"a","p","i">>, <<"c","d","n">>, <<"s","t","a","t","i","c">>,
      <<"a","s","s","e","t","s">>, <<"m","e","d","i","a">>, <<"i","m","g">>, <<"i","m","a","g","e","s">> }

suspicious_domains ==
    { <<"e","x","a","m","p","l","e",".","c","o","m">>, <<"t","e","s","t",".","c","o","m">>,
      <<"s","a","m","p","l","e",".","c","o","m">>, <<"d","u","m","m","y",".","c","o","m">>,
      <<"f","a","k","e",".","c","o","m">>, <<"i","n","v","a","l","i","d",".","c","o","m">>,
      <<"p","l","a","c","e","h","o","l","d","e","r",".","c","o","m">> }

\* technical_id_patterns: ^[a-f0-9]{32}@, ^[a-f0-9]{40}@, ^[a-f0-9]{64}@,
\* ^[a-z0-9]{20,}@ matched at the start of the address: the run of class
\* characters from position 1 must be followed at once by "@".
technical_id_patterns(email) ==
    LET head == FirstPart(email, "@")
    IN  /\ Contains(email, <<"@">>)
        /\ \/ (AllIn(head, HexChars) /\ Len(head) = 32)
           \/ (AllIn(head, HexChars) /\ Len(head) = 40)
           \/ (AllIn(head, HexChars) /\ Len(head) = 64)
           \/ (AllIn(head, LowerAlnumChars) /\ Len(head) >= 20)

\* the checks comparing the domain with the technical domains only as a whole
ValidPartsExactDomain(email, local, domain) ==
    /\ ~ \E td \in technical_domains : domain = td
    /\ ~ technical_id_patterns(email)
    /\ ~ (Len(local) < 1 \/ Len(local) > 64)
    /\ ~ (StartsWith(local, <<".">>) \/ EndsWith(local, <<".">>))
    /\ ~ Contains(local, <<".", ".">>)
    /\ ~ (Len(local) > 20 /\ AllIn(local, HexChars))
    /\ ~ (Len(domain) < 3 \/ Len(domain) > 253)
    /\ Contains(domain, <<".">>)
    /\ ~ (\/ StartsWith(domain, <<".">>) \/ EndsWith(domain, <<".">>)
          \/ StartsWith(domain, <<"-">>) \/ EndsWith(domain, <<"-">>))
    /\ ~ (Len(LastPart(domain, ".")) < 2)
    /\ ~ \E pattern \in problematic_patterns : Contains(email, pattern)
    /\ ~ (/\ CountChar(domain, ".") > 1
          /\ FirstPart(domain, ".") \in infrastructure_subdomains)
    /\ domain \notin suspicious_domains

\* is_valid_email, after the address was lower-cased and stripped and has
\* exactly one "@": the checks on local part and domain, in source order.
ValidParts(email, local, domain) ==
    /\ ~ \E td \in technical_domains :
            domain = td \/ EndsWith(domain, <<".">> \o td)
    /\ ~ technical_id_patterns(email)
    /\ ~ (Len(local) < 1 \/ Len(local) > 64)
    /\ ~ (StartsWith(local, <<".">>) \/ EndsWith(local, <<".">>))
    /\ ~ Contains(local, <<".", ".">>)
    /\ ~ (Len(local) > 20 /\ AllIn(local, HexChars))
    /\ ~ (Len(domain) < 3 \/ Len(domain) > 253)
    /\ Contains(domain, <<".">>)
    /\ ~ (\/ StartsWith(domain, <<".">>) \/ EndsWith(domain, <<".">>)
          \/ StartsWith(domain, <<"-">>) \/ EndsWith(domain, <<"-">>))
    /\ ~ (Len(LastPart(domain, ".")) < 2)
    /\ ~ \E pattern \in problematic_patterns : Contains(email, pattern)
    /\ ~ (/\ CountChar(domain, ".") > 1
          /\ FirstPart(domain, ".") \in infrastructure_subdomains)
    /\ domain \notin suspicious_domains

is_valid_email(raw) ==
    IF ~ Truthy(raw) THEN FALSE
    ELSE LET email == Lower(Strip(raw))
         IN  /\ ~ (Len(email) < 5 \/ Len(email) > 100)
             /\ ~ \E ext \in invalid_email_extensions : EndsWith(email, ext)
             /\ CountChar(email, "@") = 1
             /\ ValidParts(email, FirstPart(email, "@"), LastPart(email, "@"))

\* ------------------------------------------------------------------------
\* normalize_phone
\* ------------------------------------------------------------------------

PhoneStripChars == WhitespaceChars \cup {"-", "(", ")"}

\* re.sub(r'[\s\-\(\)]', '', phone)
RemoveChars(s, chars) ==
    LET F[i \in 0..Len(s)] ==
            IF i = 0 THEN <<>>
            ELSE IF s[i] \in chars THEN F[i - 1] ELSE Append(F[i - 1], s[i])
    IN  F[Len(s)]

\* normalize_phone turning the 0034 prefix into 34, without the "+"
normalize_phone_without_plus(phone) ==
    IF ~ Truthy(phone) THEN <<>>
    ELSE LET clean_phone == RemoveChars(phone, PhoneStripChars)
         IN  IF StartsWith(clean_phone, <<"0","0","3","4">>)
                 THEN <<"3","4">> \o DropFirst(clean_phone, 4)
             ELSE IF StartsWith(clean_phone, <<"3","4">>)
                     /\ Len(clean_phone) >= 11
                 THEN <<"+","3","4">> \o DropFirst(clean_phone, 2)
             ELSE IF ~ StartsWith(clean_phone, <<"+","3","4">>)
                     /\ Len(clean_phone) = 9
                 THEN <<"+","3","4">> \o clean_phone
             ELSE clean_phone

\* normalize_phone rewriting a leading 34 whatever the length
normalize_phone_any_length(phone) ==
    IF ~ Truthy(phone) THEN <<>>
    ELSE LET clean_phone == RemoveChars(phone, PhoneStripChars)
         IN  IF StartsWith(clean_phone, <<"0","0","3","4">>)
                 THEN <<"+","3","4">> \o DropFirst(clean_phone, 4)
             ELSE IF StartsWith(clean_phone, <<"3","4">>)
                 THEN <<"+","3","4">> \o DropFirst(clean_phone, 2)
             ELSE IF ~ StartsWith(clean_phone, <<"+","3","4">>)
                     /\ Len(clean_phone) = 9
                 THEN <<"+","3","4">> \o clean_phone
             ELSE clean_phone

normalize_phone(phone) ==
    IF ~ Truthy(phone) THEN <<>>
    ELSE LET clean_phone == RemoveChars(phone, PhoneStripChars)
         IN  IF StartsWith(clean_phone, <<"0","0","3","4">>)
                 THEN <<"+","3","4">> \o DropFirst(clean_phone, 4)
             ELSE IF StartsWith(clean_phone, <<"3","4">>)
                     /\ Len(clean_phone) >= 11
                 THEN <<"+","3","4">> \o DropFirst(clean_phone, 2)
             ELSE IF ~ StartsWith(clean_phone, <<"+","3","4">>)
                     /\ Len(clean_phone) = 9
                 THEN <<"+","3","4">> \o clean_phone
             ELSE clean_phone

\* ------------------------------------------------------------------------
\* Sample values
\* ------------------------------------------------------------------------

EmailContacto == <<"c","o","n","t","a","c","t","o","@","a","c","m","e",".","e","s">>

EmailContactoMixed == <<"C","o","n","t","a","c","t","o","@","A","c","m","e",".","e","s">>

EmailVentas == <<"v","e","n","t","a","s","@","a","c","m","e",".","e","s">>

EmailVentasMixed == <<"V","e","n","t","a","s","@","a","c","m","e",".","e","s">>

EmailNoreply == <<"n","o","r","e","p","l","y","@","a","c","m","e",".","e","s">>

PhoneSpaced == <<"6","1","2"," ","3","4","5"," ","6","7","8">>

PhonePrefixZeros == <<"0","0","3","4">>

SiteA == <<"h","t","t","p",":","/","/","a",".","e","s","/">>

SiteB == <<"h","t","t","p",":","/","/","b",".","e","s","/","t","/">>

SiteC == <<"h","t","t","p",":","/","/","c",".","e","s">>

SiteD == <<"h","t","t","p",":","/","/","d",".","e","s">>

\* ------------------------------------------------------------------------
\* Contact paths and URL resolution
\* ------------------------------------------------------------------------

contact_paths ==
    << <<>>,
       <<"/","c","o","n","t","a","c","t","o">>,
       <<"/","c","o","n","t","a","c","t">>,
       <<"/","c","o","n","t","a","c","t","a">>,
       <<"/","s","o","b","r","e","-","n","o","s","o","t","r","o","s">>,
       <<"/","a","b","o","u","t">>,
       <<"/","i","n","f","o">>,
       <<"/","i","n","f","o","r","m","a","c","i","o","n">> >>

\* website.rstrip('/')
RStripSlash(s) ==
    LET keep == {i \in DOMAIN s : s[i] /= "/"}
    IN  IF keep = {} THEN <<>>
        ELSE SubSeq(s, 1, CHOOSE i \in keep : \A j \in keep : j <= i)

\* scheme://host of an absolute URL: everything before the first "/" that
\* follows the "//" of the scheme
UrlOrigin(base) ==
    LET sep == {i \in 1..(Len(base) - 2) : SubSeq(base, i, i + 2) = <<":","/","/">>}
        a   == IF sep = {} THEN 0 ELSE (CHOOSE i \in sep : \A j \in sep : i <= j) + 2
        sl  == {i \in (a + 1)..Len(base) : base[i] = "/"}
    IN  IF sl = {} THEN base
        ELSE SubSeq(base, 1, (CHOOSE i \in sl : \A j \in sl : i <= j) - 1)

\* urllib.parse.urljoin(base_url, path) for the paths of contact_paths: the
\* empty path resolves to the base itself, a path starting with "/" resolves
\* against the origin of the base.
urljoin(base_url, path) ==
    IF path = <<>> THEN base_url ELSE UrlOrigin(base_url) \o path

\* ------------------------------------------------------------------------
\* The web: what a navigation to a URL yields
\* ------------------------------------------------------------------------

\* A rendered page: how the navigation ended, the substrings of the content
\* the email pattern matches (in document order, as written in the page),
\* and the matches of the phone pattern. A phone match records the text
\* captured by the two groups of the pattern (the optional prefix of either
\* alternative) and the 9-digit body, which no group captures.
OkPage(emails, phones) == [status |-> "ok", emails |-> emails, phones |-> phones]

FailedPage(how) == [status |-> how, emails |-> <<>>, phones |-> <<>>]

\* a page whose content holds contacts but is not read: the response has an
\* error status, or page.content() raises
ErrorPage(how, emails, phones) == [status |-> how, emails |-> emails, phones |-> phones]

PhoneMatch(prefix, body) == [g1 |-> prefix, g2 |-> <<>>, body |-> body]

Body612 == <<"6","1","2","3","4","5","6","7","8">>

Body912 == <<"9","1","2","3","4","5","6","7","8">>

Web(url) ==
    CASE url = <<"h","t","t","p",":","/","/","a",".","e","s">> ->
            OkPage(<<EmailContactoMixed>>, <<>>)
      [] url = <<"h","t","t","p",":","/","/","a",".","e","s">> \o contact_paths[2] ->
            OkPage(<<EmailContacto, EmailNoreply, EmailContacto>>,
                   <<PhoneMatch(<<"+","3","4">>, Body612)>>)
      [] url = <<"h","t","t","p",":","/","/","a",".","e","s">> \o contact_paths[3] ->
            ErrorPage("status>=400", <<EmailVentas>>, <<PhoneMatch(<<>>, Body912)>>)
      [] url = <<"h","t","t","p",":","/","/","a",".","e","s">> \o contact_paths[5] ->
            FailedPage("timeout")
      [] url = <<"h","t","t","p",":","/","/","b",".","e","s","/","t">> ->
            OkPage(<<EmailVentasMixed, EmailNoreply>>, <<>>)
      [] url = <<"h","t","t","p",":","/","/","b",".","e","s">> \o contact_paths[2] ->
            OkPage(<<EmailNoreply, EmailVentas>>,
                   <<PhoneMatch(<<>>, Body912), PhoneMatch(<<"0","0","3","4">>, Body612)>>)
      [] url = <<"h","t","t","p",":","/","/","b",".","e","s">> \o contact_paths[4] ->
            ErrorPage("content error", <<EmailContacto>>, <<>>)
      [] url = <<"h","t","t","p",":","/","/","b",".","e","s">> \o contact_paths[6] ->
            FailedPage("no response")
      [] url = <<"h","t","t","p",":","/","/","d",".","e","s">> ->
            OkPage(<<EmailContacto>>, <<>>)
      [] url = <<"h","t","t","p",":","/","/","d",".","e","s">> \o contact_paths[2] ->
            OkPage(<<EmailVentas>>, <<>>)
      [] UrlOrigin(url) = <<"h","t","t","p",":","/","/","c",".","e","s">> ->
            FailedPage("status>=400")
      [] OTHER -> OkPage(<<>>, <<>>)

\* ------------------------------------------------------------------------
\* extract_contacts_from_page
\* ------------------------------------------------------------------------

\* list(dict.fromkeys(xs)): duplicates removed, first occurrences kept in order
Dedupe(xs) ==
    LET F[i \in 0..Len(xs)] ==
            IF i = 0 THEN <<>>
            ELSE IF \E j \in 1..(i - 1) : xs[j] = xs[i] THEN F[i - 1]
                 ELSE Append(F[i - 1], xs[i])
    IN  F[Len(xs)]

Range(s) == {s[i] : i \in DOMAIN s}

\* ''.join(match) for one tuple returned by phone_pattern.findall: findall
\* returns the groups of the pattern, not the matched text
JoinGroups(m) == m.g1 \o m.g2

\* the extractor keeping every address the pattern matches
extract_contacts_unfiltered(url) ==
    LET page == Web(url)
    IN  IF page.status /= "ok" THEN [emails |-> <<>>, phones |-> {}]
        ELSE LET raw_emails   == [i \in DOMAIN page.emails |-> Lower(page.emails[i])]
             IN  [emails |-> Dedupe(raw_emails),
                  phones |-> {normalize_phone(JoinGroups(page.phones[i])) :
                                 i \in DOMAIN page.phones}]

\* the extractor reading the content whatever the navigation gave
extract_contacts_ignoring_status(url) ==
    LET page == Web(url)
        raw_emails   == [i \in DOMAIN page.emails |-> Lower(page.emails[i])]
        valid_emails == SelectSeq(raw_emails, is_valid_email)
    IN  [emails |-> Dedupe(valid_emails),
         phones |-> {normalize_phone(JoinGroups(page.phones[i])) : i \in DOMAIN page.phones}]

extract_contacts_from_page(url) ==
    LET page == Web(url)
    IN  IF page.status /= "ok" THEN [emails |-> <<>>, phones |-> {}]
        ELSE LET raw_emails   == [i \in DOMAIN page.emails |-> Lower(page.emails[i])]
                 valid_emails == SelectSeq(raw_emails, is_valid_email)
             IN  [emails |-> Dedupe(valid_emails),
                  phones |-> {normalize_phone(JoinGroups(page.phones[i])) :
                                 i \in DOMAIN page.phones}]

\* ------------------------------------------------------------------------
\* Bounds of the model
\* ------------------------------------------------------------------------

\* largest max_concurrent_workers and max_browsers a verifier is built with
MaxWorkers == 2

MaxBrowsers == 2

\* most input files of one run, most businesses of one file
MaxFiles == 2

MaxBusinesses == 2

\* ------------------------------------------------------------------------
\* State
\* ------------------------------------------------------------------------

VARIABLES
    max_concurrent_workers, \* constructor parameter
    max_browsers,           \* constructor parameter
    input_files,            \* the pending negocios_*.json files, as parsed arrays
    file_idx,               \* position of process_all_files in input_files
    opc,                    \* where process_all_files / process_single_file is
    businesses,             \* businesses[1:] of the current file
    tasks,                  \* len(tasks): worker tasks created for the file
    semaphore,              \* free slots of self.semaphore
    browser_semaphore,      \* free slots of self.browser_semaphore
    browsers,               \* self.browsers
    browser_queue,          \* self.browser_queue, oldest first
    launched,               \* browser instances launched so far (ids 1..launched)
    closed,                 \* instances on which close() was called
    close_failed,           \* those of them whose close() raised
    playwright,             \* "none", "started" or "stopped"
    worker,                 \* per task: position and local variables
    processed_count,
    verified_emails_count,
    verified_phones_count,
    results,                \* self.results
    progress_lock,          \* self.progress_lock: "free" or "held"
    outputs,                \* the email_*.json files written: index of the input file, count logged
    call,                   \* a call of is_valid_email or normalize_phone on its own
    data_dir,               \* names of the files in the data directory
    batch,                  \* "idle", or "running" inside process_all_files (by name)
    email_files,            \* get_processed_files: the email_*.json names globbed
    processed_files,        \* process_all_files: the set get_processed_files returned
    files_to_process,       \* process_all_files: the pending file names, in glob order
    file_pos,               \* files of files_to_process already handed to process_single_file
    runs,                   \* runs of process_all_files started so far
    persisted               \* input names whose output file was written by some run

cfgVars == <<max_concurrent_workers, max_browsers, input_files>>

orchVars == <<file_idx, opc, businesses, tasks>>

poolVars == <<browser_semaphore, browsers, browser_queue, launched, closed, close_failed,
              playwright>>

progVars == <<processed_count, verified_emails_count, verified_phones_count, results,
              progress_lock>>

\* the data directory and the locals of process_all_files over its names
dirVars == <<data_dir, batch, email_files, processed_files, files_to_process,
             file_pos, runs, persisted>>

\* everything of the verifier while it works through the files of one batch
engineVars == <<cfgVars, orchVars, poolVars, progVars, semaphore, worker, outputs>>

vars == <<engineVars, call, dirVars>>

Tasks == 1..MaxBusinesses

\* ------------------------------------------------------------------------
\* Records
\* ------------------------------------------------------------------------

Business(nombre, sitio_web, telefono, email) ==
    [nombre |-> nombre, sitio_web |-> sitio_web, telefono |-> telefono, email |-> email]

\* result['verification_results'] as created by the worker
FreshOutcome ==
    [emails_found   |-> <<>>,
     phones_found   |-> <<>>,
     email_verified |-> FALSE,
     phone_verified |-> FALSE,
     pages_checked  |-> <<>>,
     error          |-> "None"]

\* result = business.copy(); result['email'] = business.get('email', '').
\* task is the index of the worker task that produced the record (not a
\* field of the JSON record; it tells apart the records of equal businesses).
FreshResult(w, business) ==
    [task     |-> w,
     nombre   |-> business.nombre,
     sitio_web |-> business.sitio_web,
     telefono |-> business.telefono,
     email    |-> Get(business.email, <<>>),
     verification_results |-> FreshOutcome]

NoResult == FreshResult(0, Business("", None, None, Absent))

\* a task that was not created, or whose coroutine has returned
IdleWorker ==
    [pc |-> "none", browser |-> 0, got |-> 0, context |-> "none", page |-> "none",
     all_emails |-> {}, all_phones |-> {}, path |-> 0, result |-> NoResult]

\* all orders in which list(a_set) can enumerate a set
Orders(S) ==
    {f \in [1..Cardinality(S) -> S] : \A i, j \in 1..Cardinality(S) : i /= j => f[i] /= f[j]}

\* ------------------------------------------------------------------------
\* Inputs
\* ------------------------------------------------------------------------

BusinessNoWebsite == Business("sin web", None, None, Absent)

BusinessVerify == Business("acme", SiteA, PhoneSpaced, EmailContactoMixed)

BusinessAdopt == Business("ventas", SiteB, None, Absent)

BusinessOther == Business("otro", SiteA, PhonePrefixZeros, EmailNoreply)

BusinessEmptyWebsite == Business("vacio", <<>>, None, EmailContacto)

BusinessBadEmail == Business("raro", SiteB, None, NonStr)

BusinessDown == Business("caido", SiteC, PhoneSpaced, Absent)

BusinessTwoEmails == Business("dos", SiteD, PhoneSpaced, Absent)

PoolBusinesses == {BusinessNoWebsite, BusinessVerify}

WorkerBusinesses ==
    {BusinessNoWebsite, BusinessVerify, BusinessAdopt, BusinessOther,
     BusinessEmptyWebsite, BusinessBadEmail, BusinessDown, BusinessTwoEmails}

\* the element at index 0 of an input array
FirstElement == Business("primero", SiteA, PhoneSpaced, Absent)

\* the arrays a file can hold: a first element followed by up to
\* MaxBusinesses businesses
FilesOver(kinds) ==
    UNION {{<<FirstElement>> \o s : s \in [1..n -> kinds]} : n \in 0..MaxBusinesses}

\* every URL a worker of the modelled businesses navigates to
KnownUrls ==
    {urljoin(RStripSlash(b.sitio_web), contact_paths[p]) :
        b \in {k \in WorkerBusinesses : Truthy(k.sitio_web)}, p \in DOMAIN contact_paths}

\* what extract_contacts_from_page returns for each of them
PageContacts == [url \in KnownUrls |-> extract_contacts_from_page(url)]

\* ------------------------------------------------------------------------
\* Initial states
\* ------------------------------------------------------------------------

InitWith(files) ==
    /\ max_concurrent_workers \in 1..MaxWorkers
    /\ max_browsers \in 1..MaxBrowsers
    /\ input_files \in files
    /\ file_idx = 0
    /\ opc = "next"
    /\ businesses = <<>>
    /\ tasks = 0
    /\ semaphore = max_concurrent_workers
    /\ browser_semaphore = max_browsers
    /\ browsers = <<>>
    /\ browser_queue = <<>>
    /\ launched = 0
    /\ closed = {}
    /\ close_failed = {}
    /\ playwright = "none"
    /\ worker = [w \in Tasks |-> IdleWorker]
    /\ processed_count = 0
    /\ verified_emails_count = 0
    /\ verified_phones_count = 0
    /\ results = <<>>
    /\ progress_lock = "free"
    /\ outputs = <<>>

\* no function is called on its own
NoCall == [fn |-> "none", arg |-> <<>>, calls |-> 0, ret |-> <<>>, again |-> <<>>]

\* the directory is not looked at by name
DirIdle(names) ==
    /\ data_dir = names
    /\ batch = "idle"
    /\ email_files = {}
    /\ processed_files = {}
    /\ files_to_process = <<>>
    /\ file_pos = 0
    /\ runs = 0
    /\ persisted = {}

\* runs of 1..MaxFiles files of businesses with and without a website
Init ==
    /\ InitWith(UNION {[1..n -> FilesOver(PoolBusinesses)] : n \in 1..MaxFiles})
    /\ call = NoCall
    /\ DirIdle({})

\* runs of one file over every kind of business
InitWorker ==
    /\ InitWith([1..1 -> FilesOver(WorkerBusinesses)])
    /\ call = NoCall
    /\ DirIdle({})

\* a place of the nearby search with the two fields of its details that the
\* verifier reads
Place(name, formatted_phone_number, website) ==
    [name |-> name, formatted_phone_number |-> formatted_phone_number, website |-> website]

\* the places a search can return: without website, with a website showing
\* contacts
Places == {Place("sin web", None, None), Place("ventas", None, SiteB)}

\* BusinessDetails(...).__dict__ for a place: the dataclass has no email field
_create_business_details(place) ==
    Business(place.name, place.website, place.formatted_phone_number, Absent)

\* the array scan_polygon hands to _save_businesses_to_file, which json.dump
\* writes as it is: one element per place, the first place at index 0
scan_polygon(places) == [i \in DOMAIN places |-> _create_business_details(places[i])]

\* negocios_<slug>.json as written by a scan that found up to
\* MaxBusinesses + 1 places
ScannedFiles ==
    {scan_polygon(places) :
        places \in UNION {[1..n -> Places] : n \in 0..(MaxBusinesses + 1)}}

\* a run over one file written by the discovery step
InitPipeline ==
    /\ InitWith([1..1 -> ScannedFiles])
    /\ call = NoCall
    /\ DirIdle({})

\* a verifier that was constructed and is given no file
EngineIdle ==
    /\ InitWith({<<>>})
    /\ max_concurrent_workers = 1
    /\ max_browsers = 1

\* ------------------------------------------------------------------------
\* process_all_files / process_single_file
\* ------------------------------------------------------------------------

\* process_single_file that keeps the first element of the array
LoadFileKeepsFirst ==
    /\ opc = "next"
    /\ file_idx < Len(input_files)
    /\ Len(input_files[file_idx + 1]) > 1
    /\ file_idx' = file_idx + 1
    /\ businesses' = input_files[file_idx + 1]
    /\ processed_count' = 0
    /\ verified_emails_count' = 0
    /\ verified_phones_count' = 0
    /\ results' = <<>>
    /\ tasks' = 0
    /\ worker' = [w \in Tasks |-> IdleWorker]
    /\ playwright' = "started"
    /\ opc' = "init"
    /\ UNCHANGED <<call, dirVars, cfgVars, semaphore, browser_semaphore, browsers, browser_queue,
                   launched, closed, close_failed, progress_lock, outputs>>

\* process_all_files takes the next pending file; process_single_file drops
\* its first element, resets the counters and starts initialize_browsers
LoadFile ==
    /\ opc = "next"
    /\ file_idx < Len(input_files)
    /\ Len(input_files[file_idx + 1]) > 1
    /\ file_idx' = file_idx + 1
    /\ businesses' = Tail(input_files[file_idx + 1])
    /\ processed_count' = 0
    /\ verified_emails_count' = 0
    /\ verified_phones_count' = 0
    /\ results' = <<>>
    /\ tasks' = 0
    /\ worker' = [w \in Tasks |-> IdleWorker]
    /\ playwright' = "started"
    /\ opc' = "init"
    /\ UNCHANGED <<call, dirVars, cfgVars, semaphore, browser_semaphore, browsers, browser_queue,
                   launched, closed, close_failed, progress_lock, outputs>>

\* a file of 0 or 1 elements: process_single_file returns at once
SkipFile ==
    /\ opc = "next"
    /\ file_idx < Len(input_files)
    /\ Len(input_files[file_idx + 1]) <= 1
    /\ file_idx' = file_idx + 1
    /\ UNCHANGED <<call, dirVars, cfgVars, opc, businesses, tasks, poolVars, progVars, semaphore,
                   worker, outputs>>

\* open or json.load raises (the file is unreadable or malformed):
\* process_single_file's except clause takes over before anything was reset
ReadFail ==
    /\ opc = "next"
    /\ file_idx < Len(input_files)
    /\ file_idx' = file_idx + 1
    /\ opc' = "failed"
    /\ UNCHANGED <<call, dirVars, cfgVars, businesses, tasks, poolVars, progVars, semaphore,
                   worker, outputs>>

\* initialize_browsers: one chromium.launch, appended to self.browsers and
\* put on the queue
Launch ==
    /\ opc = "init"
    /\ Len(browsers) < max_browsers
    /\ launched' = launched + 1
    /\ browsers' = Append(browsers, launched + 1)
    /\ browser_queue' = Append(browser_queue, launched + 1)
    /\ opc' = IF Len(browsers) + 1 = max_browsers THEN "create" ELSE "init"
    /\ UNCHANGED <<call, dirVars, cfgVars, file_idx, businesses, tasks, browser_semaphore, closed, close_failed,
                   playwright, progVars, semaphore, worker, outputs>>

\* a launch raises: process_single_file's except clause takes over
LaunchFail ==
    /\ opc = "init"
    /\ Len(browsers) < max_browsers
    /\ opc' = "failed"
    /\ UNCHANGED <<call, dirVars, cfgVars, file_idx, businesses, tasks, poolVars, progVars,
                   semaphore, worker, outputs>>

\* one iteration of the task loop: create_task, then sleep once
\* len(tasks) >= max_concurrent_workers * 2
CreateTask ==
    /\ opc = "create"
    /\ tasks < Len(businesses)
    /\ tasks' = tasks + 1
    /\ worker' = [worker EXCEPT ![tasks + 1].pc = "new"]
    /\ opc' = IF tasks + 1 >= max_concurrent_workers * 2 THEN "sleep" ELSE "create"
    /\ UNCHANGED <<call, dirVars, cfgVars, file_idx, businesses, poolVars, progVars, semaphore,
                   outputs>>

\* asyncio.sleep(1) of the task loop returns
Wake ==
    /\ opc = "sleep"
    /\ opc' = "create"
    /\ UNCHANGED <<call, dirVars, cfgVars, file_idx, businesses, tasks, poolVars, progVars,
                   semaphore, worker, outputs>>

\* the loop is over: await asyncio.gather(*tasks, return_exceptions=True)
Gather ==
    /\ opc = "create"
    /\ tasks = Len(businesses)
    /\ opc' = "gather"
    /\ UNCHANGED <<call, dirVars, cfgVars, file_idx, businesses, tasks, poolVars, progVars,
                   semaphore, worker, outputs>>

\* a gather that returns as soon as one task is done
GatherFirstDone ==
    /\ opc = "gather"
    /\ \E w \in 1..tasks : worker[w].pc = "done"
    /\ opc' = "cleanup"
    /\ UNCHANGED <<call, dirVars, cfgVars, file_idx, businesses, tasks, poolVars, progVars,
                   semaphore, worker, outputs>>

\* gather returns when every task is done
GatherDone ==
    /\ opc = "gather"
    /\ \A w \in 1..tasks : worker[w].pc = "done"
    /\ opc' = "cleanup"
    /\ UNCHANGED <<call, dirVars, cfgVars, file_idx, businesses, tasks, poolVars, progVars,
                   semaphore, worker, outputs>>

\* cleanup_browsers that lets the first failing close() end it
cleanup_browsers_until_failure ==
    \E failing \in SUBSET Range(browsers) :
        LET reached == {browsers[i] : i \in {k \in DOMAIN browsers :
                                                \A j \in 1..(k - 1) : browsers[j] \notin failing}}
        IN  /\ close_failed' = close_failed \cup (failing \cap reached)
            /\ closed' = closed \cup reached
            /\ browsers' = IF failing = {} THEN <<>> ELSE browsers
            /\ playwright' = IF failing /= {} \/ playwright = "none" THEN playwright ELSE "stopped"
            /\ UNCHANGED <<browser_queue, launched, browser_semaphore>>

\* cleanup_browsers: close() is called on every browser of self.browsers,
\* whichever of the calls raise; the list is cleared and playwright stopped
\* (a stop that raises, as on None, is swallowed). The queue is not touched.
cleanup_browsers ==
    /\ \E failing \in SUBSET Range(browsers) : close_failed' = close_failed \cup failing
    /\ closed' = closed \cup Range(browsers)
    /\ browsers' = <<>>
    /\ playwright' = IF playwright = "none" THEN "none" ELSE "stopped"
    /\ UNCHANGED <<browser_queue, launched, browser_semaphore>>

\* cleanup_browsers on the normal path
Cleanup ==
    /\ opc = "cleanup"
    /\ cleanup_browsers
    /\ opc' = "write"
    /\ UNCHANGED <<call, dirVars, cfgVars, file_idx, businesses, tasks, progVars, semaphore,
                   worker, outputs>>

\* an except clause that lets the failure end process_all_files
CleanupAfterErrorAborts ==
    /\ opc = "failed"
    /\ cleanup_browsers
    /\ opc' = "finished"
    /\ UNCHANGED <<call, dirVars, cfgVars, file_idx, businesses, tasks, progVars, semaphore,
                   worker, outputs>>

\* cleanup_browsers in the except clause of process_single_file
CleanupAfterError ==
    /\ opc = "failed"
    /\ cleanup_browsers
    /\ opc' = "next"
    /\ UNCHANGED <<call, dirVars, cfgVars, file_idx, businesses, tasks, progVars, semaphore,
                   worker, outputs>>

\* a == b for two result dicts: task is not a key of the dict
SameRecord(a, b) == [a EXCEPT !.task = 0] = [b EXCEPT !.task = 0]

\* list.index(b): the first position that holds a record equal to b
ListIndex(list, b) ==
    CHOOSE i \in DOMAIN list :
        /\ SameRecord(list[i], b)
        /\ \A j \in 1..(i - 1) : ~SameRecord(list[j], b)

\* the count logged as "Emails nuevos encontrados": the results with an
\* email for which the business at the result's position in self.results has
\* none
new_emails ==
    Cardinality({j \in DOMAIN results :
                    /\ Truthy(results[j].email)
                    /\ ~Truthy(Get(businesses[ListIndex(results, results[j])].email, None))})

\* json.dump(self.results) into the email_ file: the file holds results as
\* they are in this step; then the summary of the file is logged
WriteOutput ==
    /\ opc = "write"
    /\ outputs' = Append(outputs, [file |-> file_idx, new_emails |-> new_emails])
    /\ opc' = "next"
    /\ UNCHANGED <<call, dirVars, cfgVars, file_idx, businesses, tasks, poolVars, progVars,
                   semaphore, worker>>

\* process_all_files has gone through every file
Finish ==
    /\ opc = "next"
    /\ file_idx = Len(input_files)
    /\ opc' = "finished"
    /\ UNCHANGED <<call, dirVars, cfgVars, file_idx, businesses, tasks, poolVars, progVars,
                   semaphore, worker, outputs>>

\* ------------------------------------------------------------------------
\* verify_business_contacts_worker
\* ------------------------------------------------------------------------

\* tasks run while process_single_file is suspended in sleep or in gather
Running == opc \in {"sleep", "gather"}

\* update_progress that records only the outcomes without an error
update_progress_only_ok(result) ==
    IF result.verification_results.error /= "None"
    THEN UNCHANGED progVars
    ELSE /\ progress_lock = "free"
         /\ progress_lock' = "free"
         /\ processed_count' = processed_count + 1
         /\ results' = Append(results, result)
         /\ verified_emails_count' =
               IF Truthy(result.email) /\ result.verification_results.email_verified
               THEN verified_emails_count + 1 ELSE verified_emails_count
         /\ verified_phones_count' =
               IF result.verification_results.phone_verified
               THEN verified_phones_count + 1 ELSE verified_phones_count

\* update_progress counting every email, verified or not
update_progress_counts_unverified(result) ==
    /\ progress_lock = "free"
    /\ progress_lock' = "free"
    /\ processed_count' = processed_count + 1
    /\ results' = Append(results, result)
    /\ verified_emails_count' =
          IF Truthy(result.email)
          THEN verified_emails_count + 1 ELSE verified_emails_count
    /\ verified_phones_count' =
          IF result.verification_results.phone_verified
          THEN verified_phones_count + 1 ELSE verified_phones_count

\* update_progress suspended inside its with block
update_progress_suspended(result) ==
    /\ progress_lock = "free"
    /\ progress_lock' = "held"
    /\ processed_count' = processed_count + 1
    /\ results' = Append(results, result)
    /\ verified_emails_count' =
          IF Truthy(result.email) /\ result.verification_results.email_verified
          THEN verified_emails_count + 1 ELSE verified_emails_count
    /\ verified_phones_count' =
          IF result.verification_results.phone_verified
          THEN verified_phones_count + 1 ELSE verified_phones_count

\* update_progress: progress_lock is acquired (a threading.Lock: the
\* acquire does not yield to the event loop), counters and results change
\* together, and the lock is released, all without suspension
update_progress(result) ==
    /\ progress_lock = "free"
    /\ progress_lock' = "free"
    /\ processed_count' = processed_count + 1
    /\ results' = Append(results, result)
    /\ verified_emails_count' =
          IF Truthy(result.email) /\ result.verification_results.email_verified
          THEN verified_emails_count + 1 ELSE verified_emails_count
    /\ verified_phones_count' =
          IF result.verification_results.phone_verified
          THEN verified_phones_count + 1 ELSE verified_phones_count

\* return_browser that puts the browser on the queue twice
return_browser_twice(browser) ==
    browser_queue' = Append(Append(browser_queue, browser), browser)

\* return_browser that keeps the browser out of the queue
return_browser_dropped(browser) == UNCHANGED browser_queue

\* return_browser
return_browser(browser) == browser_queue' = Append(browser_queue, browser)

\* a worker whose coroutine has returned: its local variables are gone; the
\* record keeps which browser it had obtained and how its page and context
\* ended
DoneWorker(w, context) ==
    [IdleWorker EXCEPT !.pc = "done", !.got = worker[w].got,
                       !.page = worker[w].page, !.context = context]

\* a finally clause that returns the browser only when no error was recorded
FinishWorkerLeak(w, result, context) ==
    /\ IF worker[w].browser /= 0 /\ result.verification_results.error = "None"
       THEN return_browser(worker[w].browser)
       ELSE UNCHANGED browser_queue
    /\ update_progress(result)
    /\ semaphore' = semaphore + 1
    /\ worker' = [worker EXCEPT ![w] = DoneWorker(w, context)]

\* the end of the finally clause, update_progress and the return: the browser
\* goes back if one was obtained, the result is recorded, the slot of
\* self.semaphore is released
FinishWorker(w, result, context) ==
    /\ IF worker[w].browser /= 0
       THEN return_browser(worker[w].browser)
       ELSE UNCHANGED browser_queue
    /\ update_progress(result)
    /\ semaphore' = semaphore + 1
    /\ worker' = [worker EXCEPT ![w] = DoneWorker(w, context)]

\* an except clause that does not store the message
WithErrorDropped(result, message) == result

WithError(result, message) ==
    [result EXCEPT !.verification_results.error = message]

\* tasks reach self.semaphore in the order create_task started them and
\* the semaphore wakes its waiters first come, first served: a task passes
\* only when every task created before it has passed
FirstInLine(w) == \A v \in 1..(w - 1) : worker[v].pc /= "new"

\* the no-website return without update_progress
NoWebsiteSilent(w) ==
    /\ Running
    /\ worker[w].pc = "new"
    /\ FirstInLine(w)
    /\ semaphore > 0
    /\ ~ Truthy(businesses[w].sitio_web)
    /\ worker' = [worker EXCEPT ![w] = DoneWorker(w, "none")]
    /\ UNCHANGED <<call, dirVars, cfgVars, orchVars, poolVars, progVars, semaphore, outputs>>

\* the task passes self.semaphore and finds no website: the outcome is
\* recorded and the slot released in the same step
NoWebsite(w) ==
    /\ Running
    /\ worker[w].pc = "new"
    /\ FirstInLine(w)
    /\ semaphore > 0
    /\ ~ Truthy(businesses[w].sitio_web)
    /\ update_progress(WithError(FreshResult(w, businesses[w]), "No hay website"))
    /\ worker' = [worker EXCEPT ![w] = DoneWorker(w, "none")]
    /\ UNCHANGED <<call, dirVars, cfgVars, orchVars, poolVars, semaphore, outputs>>

\* a worker body entered without taking a slot of self.semaphore
EnterUngated(w) ==
    /\ Running
    /\ worker[w].pc = "new"
    /\ FirstInLine(w)
    /\ Truthy(businesses[w].sitio_web)
    /\ semaphore' = semaphore - 1
    /\ worker' = [worker EXCEPT ![w].pc = "get_browser",
                                ![w].result = FreshResult(w, businesses[w])]
    /\ UNCHANGED <<call, dirVars, cfgVars, orchVars, poolVars, progVars, outputs>>

\* the task passes self.semaphore and goes on to get_browser
EnterGate(w) ==
    /\ Running
    /\ worker[w].pc = "new"
    /\ FirstInLine(w)
    /\ semaphore > 0
    /\ Truthy(businesses[w].sitio_web)
    /\ semaphore' = semaphore - 1
    /\ worker' = [worker EXCEPT ![w].pc = "get_browser",
                                ![w].result = FreshResult(w, businesses[w])]
    /\ UNCHANGED <<call, dirVars, cfgVars, orchVars, poolVars, progVars, outputs>>

\* get_browser: the browser semaphore is taken; with a browser in the queue
\* the get returns at once and the semaphore is released, otherwise the task
\* waits in queue.get() holding the semaphore
GetBrowser(w) ==
    /\ Running
    /\ worker[w].pc = "get_browser"
    /\ browser_semaphore > 0
    /\ IF browser_queue /= <<>>
       THEN /\ browser_queue' = Tail(browser_queue)
            /\ worker' = [worker EXCEPT ![w].pc = "new_context",
                                        ![w].browser = Head(browser_queue),
                                        ![w].got = Head(browser_queue)]
            /\ UNCHANGED browser_semaphore
       ELSE /\ browser_semaphore' = browser_semaphore - 1
            /\ worker' = [worker EXCEPT ![w].pc = "queue_get"]
            /\ UNCHANGED browser_queue
    /\ UNCHANGED <<call, dirVars, cfgVars, orchVars, browsers, launched, closed, close_failed, playwright,
                   progVars, semaphore, outputs>>

\* queue.get() returns to a waiting task, which leaves the semaphore
QueueGet(w) ==
    /\ Running
    /\ worker[w].pc = "queue_get"
    /\ browser_queue /= <<>>
    /\ browser_queue' = Tail(browser_queue)
    /\ browser_semaphore' = browser_semaphore + 1
    /\ worker' = [worker EXCEPT ![w].pc = "new_context",
                                ![w].browser = Head(browser_queue),
                                ![w].got = Head(browser_queue)]
    /\ UNCHANGED <<call, dirVars, cfgVars, orchVars, browsers, launched, closed, close_failed, playwright,
                   progVars, semaphore, outputs>>

\* browser.new_context succeeds (the browser must still be open: no close()
\* was called on it, or the call raised)
NewContext(w) ==
    /\ Running
    /\ worker[w].pc = "new_context"
    /\ worker[w].browser \notin (closed \ close_failed)
    /\ worker' = [worker EXCEPT ![w].pc = "new_page", ![w].context = "open"]
    /\ UNCHANGED <<call, dirVars, cfgVars, orchVars, poolVars, progVars, semaphore, outputs>>

\* browser.new_context raises (always on a closed browser): except clause,
\* then the finally clause with no page and no context
NewContextFail(w) ==
    /\ Running
    /\ worker[w].pc = "new_context"
    /\ FinishWorker(w, WithError(worker[w].result, "new_context"), "none")
    /\ UNCHANGED <<call, dirVars, cfgVars, orchVars, browser_semaphore, browsers, launched, closed, close_failed,
                   playwright, outputs>>

\* context.new_page and set_extra_http_headers succeed
NewPage(w) ==
    /\ Running
    /\ worker[w].pc = "new_page"
    /\ worker' = [worker EXCEPT ![w].pc = "visit", ![w].page = "open", ![w].path = 1]
    /\ UNCHANGED <<call, dirVars, cfgVars, orchVars, poolVars, progVars, semaphore, outputs>>

\* context.new_page raises: except clause, then the finally clause closes
\* the context
NewPageFail(w) ==
    /\ Running
    /\ worker[w].pc = "new_page"
    /\ worker' = [worker EXCEPT ![w].pc = "close_context",
                                ![w].result = WithError(@, "new_page")]
    /\ UNCHANGED <<call, dirVars, cfgVars, orchVars, poolVars, progVars, semaphore, outputs>>

\* the loop over contact_paths taken from the last path to the first
VisitPathBackwards(w) ==
    /\ Running
    /\ worker[w].pc = "visit"
    /\ LET base_url == RStripSlash(businesses[w].sitio_web)
           url      == urljoin(base_url, contact_paths[Len(contact_paths) + 1 - worker[w].path])
           found    == PageContacts[url]
       IN  worker' = [worker EXCEPT
               ![w].result.verification_results.pages_checked = Append(@, url),
               ![w].all_emails = @ \cup Range(found.emails),
               ![w].all_phones = @ \cup found.phones,
               ![w].path = @ + 1,
               ![w].pc = IF worker[w].path = Len(contact_paths)
                         THEN "reconcile" ELSE "visit"]
    /\ UNCHANGED <<call, dirVars, cfgVars, orchVars, poolVars, progVars, semaphore, outputs>>

\* one iteration of the loop over contact_paths
VisitPath(w) ==
    /\ Running
    /\ worker[w].pc = "visit"
    /\ LET base_url == RStripSlash(businesses[w].sitio_web)
           url      == urljoin(base_url, contact_paths[worker[w].path])
           found    == PageContacts[url]
       IN  worker' = [worker EXCEPT
               ![w].result.verification_results.pages_checked = Append(@, url),
               ![w].all_emails = @ \cup Range(found.emails),
               ![w].all_phones = @ \cup found.phones,
               ![w].path = @ + 1,
               ![w].pc = IF worker[w].path = Len(contact_paths)
                         THEN "reconcile" ELSE "visit"]
    /\ UNCHANGED <<call, dirVars, cfgVars, orchVars, poolVars, progVars, semaphore, outputs>>

\* the reconciliation dropping an existing email it could not verify
ReconciledClearsUnverified(result, current_phone, all_emails, all_phones) ==
    LET current_email == IF Truthy(result.email) THEN Lower(result.email) ELSE None
        keep_email    == /\ Truthy(current_email)
                         /\ current_email \in all_emails
                         /\ is_valid_email(current_email)
        keep_phone    == Truthy(current_phone) /\ current_phone \in all_phones
        valid_new_emails ==
            SelectSeq(result.verification_results.emails_found, is_valid_email)
        new_email     == /\ all_emails /= {}
                         /\ ~ Truthy(current_email)
                         /\ valid_new_emails /= <<>>
        new_phone     == all_phones /= {} /\ ~ Truthy(current_phone)
    IN  [result EXCEPT
            !.email = IF new_email THEN valid_new_emails[1]
                      ELSE IF keep_email THEN @ ELSE <<>>,
            !.telefono = IF new_phone
                         THEN result.verification_results.phones_found[1] ELSE @,
            !.verification_results.email_verified = keep_email \/ new_email,
            !.verification_results.phone_verified = keep_phone \/ new_phone]

\* the reconciliation looking up the existing phone as written, not normalized
ReconciledPhoneAsWritten(result, current_phone, all_emails, all_phones) ==
    LET current_email == IF Truthy(result.email) THEN Lower(result.email) ELSE None
        keep_email    == /\ Truthy(current_email)
                         /\ current_email \in all_emails
                         /\ is_valid_email(current_email)
        keep_phone    == Truthy(current_phone) /\ result.telefono \in all_phones
        valid_new_emails ==
            SelectSeq(result.verification_results.emails_found, is_valid_email)
        new_email     == /\ all_emails /= {}
                         /\ ~ Truthy(current_email)
                         /\ valid_new_emails /= <<>>
        new_phone     == all_phones /= {} /\ ~ Truthy(current_phone)
    IN  [result EXCEPT
            !.email = IF new_email THEN valid_new_emails[1] ELSE @,
            !.telefono = IF new_phone
                         THEN result.verification_results.phones_found[1] ELSE @,
            !.verification_results.email_verified = keep_email \/ new_email,
            !.verification_results.phone_verified = keep_phone \/ new_phone]

\* the reconciliation comparing the existing email as written, not lower-cased
ReconciledCaseSensitive(result, current_phone, all_emails, all_phones) ==
    LET current_email == IF Truthy(result.email) THEN result.email ELSE None
        keep_email    == /\ Truthy(current_email)
                         /\ current_email \in all_emails
                         /\ is_valid_email(current_email)
        keep_phone    == Truthy(current_phone) /\ current_phone \in all_phones
        valid_new_emails ==
            SelectSeq(result.verification_results.emails_found, is_valid_email)
        new_email     == /\ all_emails /= {}
                         /\ ~ Truthy(current_email)
                         /\ valid_new_emails /= <<>>
        new_phone     == all_phones /= {} /\ ~ Truthy(current_phone)
    IN  [result EXCEPT
            !.email = IF new_email THEN valid_new_emails[1] ELSE @,
            !.telefono = IF new_phone
                         THEN result.verification_results.phones_found[1] ELSE @,
            !.verification_results.email_verified = keep_email \/ new_email,
            !.verification_results.phone_verified = keep_phone \/ new_phone]

\* the reconciliation adopting a found email over an existing one
ReconciledAlwaysAdopts(result, current_phone, all_emails, all_phones) ==
    LET current_email == IF Truthy(result.email) THEN Lower(result.email) ELSE None
        keep_email    == /\ Truthy(current_email)
                         /\ current_email \in all_emails
                         /\ is_valid_email(current_email)
        keep_phone    == Truthy(current_phone) /\ current_phone \in all_phones
        valid_new_emails ==
            SelectSeq(result.verification_results.emails_found, is_valid_email)
        new_email     == /\ all_emails /= {}
                         /\ valid_new_emails /= <<>>
        new_phone     == all_phones /= {} /\ ~ Truthy(current_phone)
    IN  [result EXCEPT
            !.email = IF new_email THEN valid_new_emails[1] ELSE @,
            !.telefono = IF new_phone
                         THEN result.verification_results.phones_found[1] ELSE @,
            !.verification_results.email_verified = keep_email \/ new_email,
            !.verification_results.phone_verified = keep_phone \/ new_phone]

\* the reconciliation adopting a found email without marking it verified
ReconciledAdoptsUnverified(result, current_phone, all_emails, all_phones) ==
    LET current_email == IF Truthy(result.email) THEN Lower(result.email) ELSE None
        keep_email    == /\ Truthy(current_email)
                         /\ current_email \in all_emails
                         /\ is_valid_email(current_email)
        keep_phone    == Truthy(current_phone) /\ current_phone \in all_phones
        valid_new_emails ==
            SelectSeq(result.verification_results.emails_found, is_valid_email)
        new_email     == /\ all_emails /= {}
                         /\ ~ Truthy(current_email)
                         /\ valid_new_emails /= <<>>
        new_phone     == all_phones /= {} /\ ~ Truthy(current_phone)
    IN  [result EXCEPT
            !.email = IF new_email THEN valid_new_emails[1] ELSE @,
            !.telefono = IF new_phone
                         THEN result.verification_results.phones_found[1] ELSE @,
            !.verification_results.email_verified = keep_email,
            !.verification_results.phone_verified = keep_phone \/ new_phone]

\* the reconciliation marking every existing email verified, found or not
ReconciledTrustsExisting(result, current_phone, all_emails, all_phones) ==
    LET current_email == IF Truthy(result.email) THEN Lower(result.email) ELSE None
        keep_email    == Truthy(current_email)
        keep_phone    == Truthy(current_phone) /\ current_phone \in all_phones
        valid_new_emails ==
            SelectSeq(result.verification_results.emails_found, is_valid_email)
        new_email     == /\ all_emails /= {}
                         /\ ~ Truthy(current_email)
                         /\ valid_new_emails /= <<>>
        new_phone     == all_phones /= {} /\ ~ Truthy(current_phone)
    IN  [result EXCEPT
            !.email = IF new_email THEN valid_new_emails[1] ELSE @,
            !.telefono = IF new_phone
                         THEN result.verification_results.phones_found[1] ELSE @,
            !.verification_results.email_verified = keep_email \/ new_email,
            !.verification_results.phone_verified = keep_phone \/ new_phone]

\* lines 338-357 of the worker, for a result whose found lists are set:
\* verification of the existing email and phone, adoption of new ones
Reconciled(result, current_phone, all_emails, all_phones) ==
    LET current_email == IF Truthy(result.email) THEN Lower(result.email) ELSE None
        keep_email    == /\ Truthy(current_email)
                         /\ current_email \in all_emails
                         /\ is_valid_email(current_email)
        keep_phone    == Truthy(current_phone) /\ current_phone \in all_phones
        valid_new_emails ==
            SelectSeq(result.verification_results.emails_found, is_valid_email)
        new_email     == /\ all_emails /= {}
                         /\ ~ Truthy(current_email)
                         /\ valid_new_emails /= <<>>
        new_phone     == all_phones /= {} /\ ~ Truthy(current_phone)
    IN  [result EXCEPT
            !.email = IF new_email THEN valid_new_emails[1] ELSE @,
            !.telefono = IF new_phone
                         THEN result.verification_results.phones_found[1] ELSE @,
            !.verification_results.email_verified = keep_email \/ new_email,
            !.verification_results.phone_verified = keep_phone \/ new_phone]

\* after the last path: the found lists are stored in some enumeration order
\* of the sets, then the reconciliation, which raises on an email that is
\* not a string; the page is closed next
Reconcile(w) ==
    /\ Running
    /\ worker[w].pc = "reconcile"
    /\ \E emails_found \in Orders(worker[w].all_emails),
          phones_found \in Orders(worker[w].all_phones) :
          LET found == [worker[w].result EXCEPT
                           !.verification_results.emails_found = emails_found,
                           !.verification_results.phones_found = phones_found]
              current_phone == normalize_phone(Get(businesses[w].telefono, <<>>))
          IN  worker' = [worker EXCEPT
                  ![w].pc = "close_page",
                  ![w].result =
                      IF found.email = NonStr
                      THEN WithError(found, "reconcile")
                      ELSE Reconciled(found, current_phone,
                                      worker[w].all_emails, worker[w].all_phones)]
    /\ UNCHANGED <<call, dirVars, cfgVars, orchVars, poolVars, progVars, semaphore, outputs>>

\* page.close(), whose failure is swallowed
ClosePage(w) ==
    /\ Running
    /\ worker[w].pc = "close_page"
    /\ \E how \in {"closed", "close failed"} :
          worker' = [worker EXCEPT ![w].pc = "close_context", ![w].page = how]
    /\ UNCHANGED <<call, dirVars, cfgVars, orchVars, poolVars, progVars, semaphore, outputs>>

\* context.close(), whose failure is swallowed; then the browser is
\* returned, the progress updated and the worker returns
CloseContext(w) ==
    /\ Running
    /\ worker[w].pc = "close_context"
    /\ \E how \in {"closed", "close failed"} : FinishWorker(w, worker[w].result, how)
    /\ UNCHANGED <<call, dirVars, cfgVars, orchVars, browser_semaphore, browsers, launched, closed, close_failed,
                   playwright, outputs>>

\* ------------------------------------------------------------------------
\* Specifications
\* ------------------------------------------------------------------------

Next ==
    \/ LoadFile
    \/ SkipFile
    \/ ReadFail
    \/ Launch
    \/ LaunchFail
    \/ CreateTask
    \/ Wake
    \/ Gather
    \/ GatherDone
    \/ Cleanup
    \/ CleanupAfterError
    \/ WriteOutput
    \/ Finish
    \/ \E w \in Tasks :
          \/ NoWebsite(w)
          \/ EnterGate(w)
          \/ GetBrowser(w)
          \/ QueueGet(w)
          \/ NewContext(w)
          \/ NewContextFail(w)
          \/ NewPage(w)
          \/ NewPageFail(w)
          \/ VisitPath(w)
          \/ Reconcile(w)
          \/ ClosePage(w)
          \/ CloseContext(w)

Spec == Init /\ [][Next]_vars

SpecWorker == InitWorker /\ [][Next]_vars

SpecPipeline == InitPipeline /\ [][Next]_vars

\* the event loop runs whatever is ready: a task that can take a step, a
\* sleep that is over, a navigation that has returned or timed out
SpecFair == Init /\ [][Next]_vars /\ WF_vars(Next)

\* ------------------------------------------------------------------------
\* is_valid_email and normalize_phone called on their own
\* ------------------------------------------------------------------------

\* most pieces a telephone argument is made of
MaxPhoneTokens == 2

\* pieces of telephone arguments: the prefixes normalize_phone looks for,
\* digit runs of the lengths it distinguishes, and the characters it strips
PhoneTokens ==
    { <<"0","0","3","4">>,
      <<"3","4">>,
      <<"+","3","4">>,
      <<"+">>,
      <<"6">>,
      <<"6","1","2","3","4","5","6","7","8">>,
      <<"1","2","3","4","5","6","7","8">>,
      <<"1","2","3","4","5","6","7">>,
      <<"1","2","3","4","5">>,
      <<" ">>,
      <<"-">>,
      <<"(">>,
      <<")">> }

\* the strings made of at most n pieces
PhoneStrings(n) ==
    LET F[k \in 0..n] ==
            IF k = 0 THEN {<<>>}
            ELSE F[k - 1] \cup {s \o t : s \in F[k - 1], t \in PhoneTokens}
    IN  F[n]

PhoneArgs == PhoneStrings(MaxPhoneTokens) \cup {None}

\* local parts and domains of the addresses is_valid_email is called with
EmailLocals ==
    { <<"i","n","f","o">>,
      <<"t","r","a","c","k","i","n","g">>,
      <<"a","1","b","2","c","3","d","4","e","5","f","6","a","1","b","2","c","3","d","4","e","5","f","6","a","1","b","2","c","3","d","4">>,
      <<"p","e","d","i","d","o","s","m","a","d","r","i","d","2","0","2","4","x","y","z">>,
      <<"p","e","d","i","d","o","s","m","a","d","r","i","d","2","0","2","4","x","y">>,
      <<"P","e","d","i","d","o","s","M","a","d","r","i","d","2","0","2","4","x","y","z">>,
      <<"p","e","d","i","d","o","s",".","m","a","d","r","i","d","2","0","2","4","x","y","z">> }

EmailDomains ==
    { <<"s","e","n","t","r","y",".","i","o">>,
      <<"m","a","i","l",".","s","e","n","d","g","r","i","d",".","c","o","m">>,
      <<"S","e","n","d","G","r","i","d",".","c","o","m">>,
      <<"n","o","t","s","e","n","d","g","r","i","d",".","c","o","m">>,
      <<"s","e","n","d","g","r","i","d",".","c","o","m",".","e","s">>,
      <<"m","a","i","l","e","r",".","c","o","m">>,
      <<"a","c","m","e",".","e","s">>,
      <<"e","x","a","m","p","l","e","b","u","s","i","n","e","s","s",".","e","s">> }

EmailArgs ==
    {l \o <<"@">> \o d : l \in EmailLocals, d \in EmailDomains}
        \cup {None, <<>>, <<" ">> \o EmailContacto \o <<" ">>}

PhoneCall(arg) ==
    [fn |-> "normalize_phone", arg |-> arg, calls |-> 0, ret |-> <<>>, again |-> <<>>]

EmailCall(arg) ==
    [fn |-> "is_valid_email", arg |-> arg, calls |-> 0, ret |-> FALSE, again |-> FALSE]

\* one argument is drawn for one of the two functions
InitCalls ==
    /\ EngineIdle
    /\ DirIdle({})
    /\ \/ call \in {PhoneCall(arg) : arg \in PhoneArgs}
       \/ call \in {EmailCall(arg) : arg \in EmailArgs}

\* normalize_phone(arg)
CallNormalizePhone ==
    /\ call.fn = "normalize_phone"
    /\ call.calls = 0
    /\ call' = [call EXCEPT !.calls = 1, !.ret = normalize_phone(call.arg)]
    /\ UNCHANGED <<engineVars, dirVars>>

\* normalize_phone applied to what it returned
CallNormalizePhoneAgain ==
    /\ call.fn = "normalize_phone"
    /\ call.calls = 1
    /\ call' = [call EXCEPT !.calls = 2, !.again = normalize_phone(call.ret)]
    /\ UNCHANGED <<engineVars, dirVars>>

\* is_valid_email(arg)
CallIsValidEmail ==
    /\ call.fn = "is_valid_email"
    /\ call.calls = 0
    /\ call' = [call EXCEPT !.calls = 1, !.ret = is_valid_email(call.arg)]
    /\ UNCHANGED <<engineVars, dirVars>>

NextCalls ==
    \/ CallNormalizePhone
    \/ CallNormalizePhoneAgain
    \/ CallIsValidEmail

SpecCalls == InitCalls /\ [][NextCalls]_vars

\* ------------------------------------------------------------------------
\* The data directory: which files a run of process_all_files works on
\* ------------------------------------------------------------------------

\* most runs of process_all_files over the same directory
MaxRuns == 2

NegociosPrefix == <<"n","e","g","o","c","i","o","s","_">>

EmailPrefix == <<"e","m","a","i","l","_">>

JsonSuffix == <<".","j","s","o","n">>

\* s.replace(old, new): every occurrence of old, from the left, without overlap
Replace(s, old, new) ==
    LET F[i \in 0..Len(s)] ==
            \* the replacement of the last i characters of s
            IF i < Len(old) THEN SubSeq(s, Len(s) - i + 1, Len(s))
            ELSE IF SubSeq(s, Len(s) - i + 1, Len(s) - i + Len(old)) = old
                 THEN new \o F[i - Len(old)]
                 ELSE <<s[Len(s) - i + 1]>> \o F[i - 1]
    IN  F[Len(s)]

\* glob of data_dir / "<prefix>*.json", by file name
GlobJson(dir, prefix) ==
    {name \in dir : /\ Len(name) >= Len(prefix) + Len(JsonSuffix)
                    /\ StartsWith(name, prefix)
                    /\ EndsWith(name, JsonSuffix)}

get_input_files(dir) == GlobJson(dir, NegociosPrefix)

\* the input name an output name is taken to come from
OriginalName(email_name) == Replace(email_name, EmailPrefix, NegociosPrefix)

\* get_processed_files returning the output names as globbed
get_processed_files_as_listed(dir) == GlobJson(dir, EmailPrefix)

get_processed_files(dir) == {OriginalName(name) : name \in GlobJson(dir, EmailPrefix)}

\* the name process_single_file writes the results of an input file to
OutputName(input_name) == Replace(input_name, NegociosPrefix, EmailPrefix)

NegociosZoneA == <<"n","e","g","o","c","i","o","s","_","z","o","n","e","A",".","j","s","o","n">>

NegociosEmailB == <<"n","e","g","o","c","i","o","s","_","e","m","a","i","l","_","b",".","j","s","o","n">>

NegociosNegociosC == <<"n","e","g","o","c","i","o","s","_","n","e","g","o","c","i","o","s","_","c",".","j","s","o","n">>

NegociosNegociosB == <<"n","e","g","o","c","i","o","s","_","n","e","g","o","c","i","o","s","_","b",".","j","s","o","n">>

EmailNegociosZoneA == <<"e","m","a","i","l","_","n","e","g","o","c","i","o","s","_","z","o","n","e","A",".","j","s","o","n">>

EmailZoneA == <<"e","m","a","i","l","_","z","o","n","e","A",".","j","s","o","n">>

\* the file names a data directory starts with
DirNames ==
    {NegociosZoneA, NegociosEmailB, NegociosNegociosB, NegociosNegociosC,
     EmailNegociosZoneA, EmailZoneA}

InitFiles ==
    /\ EngineIdle
    /\ call = NoCall
    /\ \E names \in SUBSET DirNames : DirIdle(names)

\* process_all_files up to its loop: the pending files are the globbed input
\* files, in the order glob returned them, without the processed ones; with
\* none pending it returns
StartRun ==
    /\ batch = "idle"
    /\ runs < MaxRuns
    /\ runs' = runs + 1
    /\ email_files' = GlobJson(data_dir, EmailPrefix)
    /\ processed_files' = get_processed_files(data_dir)
    /\ \E input_names \in Orders(get_input_files(data_dir)) :
          files_to_process' =
              SelectSeq(input_names, LAMBDA f : f \notin processed_files')
    /\ file_pos' = 0
    /\ batch' = IF files_to_process' = <<>> THEN "idle" ELSE "running"
    /\ UNCHANGED <<engineVars, call, data_dir, persisted>>

\* process_single_file on the next pending file, as far as the directory
\* sees it: the results are written under the output name, or nothing is
\* written (an array of at most one element, or an exception)
ProcessFile ==
    /\ batch = "running"
    /\ file_pos < Len(files_to_process)
    /\ file_pos' = file_pos + 1
    /\ LET input_file == files_to_process[file_pos + 1]
       IN  \E written \in BOOLEAN :
              /\ data_dir' = IF written THEN data_dir \cup {OutputName(input_file)}
                             ELSE data_dir
              /\ persisted' = IF written THEN persisted \cup {input_file}
                              ELSE persisted
    /\ UNCHANGED <<engineVars, call, batch, email_files, processed_files,
                   files_to_process, runs>>

\* process_all_files after its last file
EndRun ==
    /\ batch = "running"
    /\ file_pos = Len(files_to_process)
    /\ batch' = "idle"
    /\ UNCHANGED <<engineVars, call, data_dir, email_files, processed_files,
                   files_to_process, file_pos, runs, persisted>>

NextFiles ==
    \/ StartRun
    \/ ProcessFile
    \/ EndRun

SpecFiles == InitFiles /\ [][NextFiles]_vars

\* ------------------------------------------------------------------------
\* Properties
\* ------------------------------------------------------------------------

\* the worker holds a browser: between get_browser returning it and
\* return_browser putting it back
Holding(w) == worker[w].browser /= 0

Holders == {w \in Tasks : Holding(w)}

\* the worker is inside the body guarded by self.semaphore
InBody(w) ==
    worker[w].pc \in {"get_browser", "queue_get", "new_context", "new_page", "visit",
                      "reconcile", "close_page", "close_context"}

\* the URLs a worker visits for a website
VisitedUrls(website) ==
    {urljoin(RStripSlash(website), contact_paths[p]) : p \in DOMAIN contact_paths}

\* the websites of the modelled businesses
Websites == {b.sitio_web : b \in {k \in WorkerBusinesses : Truthy(k.sitio_web)}}

\* per website, the lower-cased addresses written on its pages that load
CandidatesTable ==
    [website \in Websites |->
        UNION {{Lower(Web(u).emails[i]) : i \in DOMAIN Web(u).emails} :
                  u \in {v \in VisitedUrls(website) : Web(v).status = "ok"}}]

\* per website, those of them the validator accepts
AcceptedTable ==
    [website \in Websites |-> {e \in CandidatesTable[website] : is_valid_email(e)}]

CandidatesOnPages(website) == CandidatesTable[website]

AcceptedOnPages(website) == AcceptedTable[website]

\* the input business of a recorded result
SourceOf(r) == businesses[r.task]

\* a pre-existing email: present, not None, not empty
HasEmail(b) == Truthy(b.email)

\* C1: no browser instance is held by two workers at the same time.
C1_NoSharedBrowser ==
    \A w1, w2 \in Tasks :
        (w1 /= w2 /\ Holding(w1)) => worker[w1].browser /= worker[w2].browser

\* more tasks than browsers: one worker holds the browser while another
\* waits for it in queue.get()
C1_Witness ==
    /\ tasks > max_browsers
    /\ \E w1, w2 \in Tasks :
          /\ w1 /= w2
          /\ Holding(w1)
          /\ worker[w2].pc = "queue_get"

\* C2: at most max_concurrent_workers workers are inside the body of
\* verify_business_contacts_worker at any moment.
C2_GateBound == Cardinality({w \in Tasks : InBody(w)}) <= max_concurrent_workers

\* more tasks than slots: the body is full and a created task waits at the gate
C2_Witness ==
    /\ tasks > max_concurrent_workers
    /\ Cardinality({w \in Tasks : InBody(w)}) = max_concurrent_workers
    /\ \E w \in Tasks : worker[w].pc = "new"

\* C3: at every moment of a run over any number of files, at most
\* max_browsers workers hold a borrowed browser.
C3_HoldersBound == Cardinality(Holders) <= max_browsers

\* C4: from the end of initialize_browsers until cleanup_browsers starts, the
\* pool (queue plus borrowed instances) holds exactly max_browsers instances,
\* for every file of the run.
C4_PoolSize ==
    opc \in {"create", "sleep", "gather", "cleanup"}
        => Len(browser_queue) + Cardinality(Holders) = max_browsers

\* C5: a finished worker that had obtained a browser holds it no more, and
\* the browser is back in the pool: on the queue, or borrowed again by
\* another worker.
C5_BrowserReturned ==
    \A w \in Tasks :
        (worker[w].pc = "done" /\ worker[w].got /= 0)
            => /\ ~ Holding(w)
               /\ \/ worker[w].got \in Range(browser_queue)
                  \/ \E w2 \in Tasks : worker[w2].browser = worker[w].got

\* two finished workers that had a browser: one failed in the reconciliation
\* and its page.close failed, the other failed to create its page and its
\* context.close failed
C5_Witness ==
    \E w1, w2 \in Tasks, j1, j2 \in DOMAIN results :
        /\ worker[w1].pc = "done" /\ worker[w1].got /= 0
        /\ worker[w2].pc = "done" /\ worker[w2].got /= 0
        /\ results[j1].task = w1
        /\ results[j1].verification_results.error = "reconcile"
        /\ worker[w1].page = "close failed"
        /\ results[j2].task = w2
        /\ results[j2].verification_results.error = "new_page"
        /\ worker[w2].context = "close failed"

\* a result list holds exactly one record for each business of a list
OneEntryEach(res, list) ==
    /\ Len(res) = Len(list)
    /\ \A i \in DOMAIN list :
          /\ Cardinality({j \in DOMAIN res : res[j].task = i}) = 1
          /\ \A j \in DOMAIN res : res[j].task = i => res[j].nombre = list[i].nombre

\* C6: once every worker task has been awaited, and when the output file
\* is written, the results hold exactly one entry for each business after
\* the dropped first element.
C6_OneEntryPerBusiness ==
    opc \in {"cleanup", "write"}
        => /\ businesses = Tail(input_files[file_idx])
           /\ OneEntryEach(results, businesses)

\* a file of two businesses has been awaited: one had no website, the other
\* recorded a business-level error
C6_Witness ==
    /\ opc = "write"
    /\ Len(businesses) = 2
    /\ \E j, k \in DOMAIN results :
          /\ results[j].verification_results.error = "No hay website"
          /\ results[k].verification_results.error \in {"new_context", "new_page", "reconcile"}

\* C7: a business without website yields error "No hay website", empty
\* found lists and pages_checked, both flags False; its worker never obtains
\* a browser; it is counted and appended exactly once.
C7_NoWebsiteOutcome ==
    /\ processed_count = Len(results)
    /\ \A j \in DOMAIN results :
          ~ Truthy(results[j].sitio_web)
              => /\ results[j].verification_results =
                        [FreshOutcome EXCEPT !.error = "No hay website"]
                 /\ worker[results[j].task].got = 0
    /\ \A w \in 1..tasks :
          (worker[w].pc = "done" /\ ~ Truthy(businesses[w].sitio_web))
              => Cardinality({j \in DOMAIN results : results[j].task = w}) = 1

\* both a business whose website is None and one whose website is the empty
\* string have been recorded
C7_Witness ==
    /\ processed_count = 2
    /\ \E j, k \in DOMAIN results :
          /\ results[j].sitio_web = None
          /\ results[k].sitio_web = <<>>
          /\ results[j].verification_results.error = "No hay website"
          /\ results[k].verification_results.error = "No hay website"

\* C8: with a pre-existing email and no business-level error, email_verified
\* is True iff the lower-cased pre-existing email is among the
\* validator-accepted emails of the visited pages.
C8_ExistingEmailVerified ==
    \A j \in DOMAIN results :
        LET r == results[j]
            b == SourceOf(r)
        IN  (HasEmail(b) /\ r.verification_results.error = "None")
                => (r.verification_results.email_verified
                        <=> Lower(b.email) \in AcceptedOnPages(b.sitio_web))

\* an email written in mixed case was verified against its site, and an
\* email that the site shows but the validator rejects was not
C8_Witness ==
    \E j, k \in DOMAIN results :
        /\ SourceOf(results[j]) = BusinessVerify
        /\ results[j].verification_results.error = "None"
        /\ results[j].verification_results.email_verified
        /\ SourceOf(results[k]) = BusinessOther
        /\ results[k].verification_results.error = "None"
        /\ ~ results[k].verification_results.email_verified

\* C9: the result of a business with a pre-existing email carries that
\* email unchanged, whatever the outcome.
C9_ExistingEmailKept ==
    \A j \in DOMAIN results :
        HasEmail(SourceOf(results[j])) => results[j].email = SourceOf(results[j]).email

\* an unverified existing email next to other emails found, and an existing
\* email in an outcome with an error
C9_Witness ==
    \E j, k \in DOMAIN results :
        /\ HasEmail(SourceOf(results[j]))
        /\ results[j].verification_results.error = "None"
        /\ ~ results[j].verification_results.email_verified
        /\ results[j].verification_results.emails_found /= <<>>
        /\ HasEmail(SourceOf(results[k]))
        /\ results[k].verification_results.error = "reconcile"

\* C10: without a pre-existing email, when the visited pages show an
\* accepted email, the worker adopts an accepted email of those pages and
\* marks it verified; pages showing exactly ventas@acme.es and
\* noreply@acme.es give email ventas@acme.es.
C10_Adoption ==
    \A j \in DOMAIN results :
        LET r == results[j]
            b == SourceOf(r)
        IN  (/\ ~ HasEmail(b)
             /\ Truthy(b.sitio_web)
             /\ r.verification_results.error = "None"
             /\ AcceptedOnPages(b.sitio_web) /= {})
                => /\ r.email \in AcceptedOnPages(b.sitio_web)
                   /\ r.verification_results.email_verified
                   /\ CandidatesOnPages(b.sitio_web) = {EmailVentas, EmailNoreply}
                          => r.email = EmailVentas

\* the business whose pages show ventas@ and noreply@ adopted ventas@
C10_Witness ==
    \E j \in DOMAIN results :
        /\ SourceOf(results[j]) = BusinessAdopt
        /\ CandidatesOnPages(BusinessAdopt.sitio_web) = {EmailVentas, EmailNoreply}
        /\ results[j].verification_results.error = "None"
        /\ results[j].email = EmailVentas
        /\ results[j].verification_results.email_verified

\* every lower-cased address written on a page of a known website
KnownEmails == UNION {CandidatesTable[website] : website \in Websites}

ValidEmailTable == [e \in KnownEmails |-> is_valid_email(e)]

\* is_valid_email(e), looked up for the addresses of the known pages
PassesValidator(e) ==
    IF e \in KnownEmails THEN ValidEmailTable[e] ELSE is_valid_email(e)

NoDuplicates(list) == \A i, j \in DOMAIN list : list[i] = list[j] => i = j

\* C11: when the email of a result differs from the email the worker read
\* from its business (business.get('email', '')), the result's email passes
\* is_valid_email.
C11_ChangedEmailValid ==
    \A j \in DOMAIN results :
        results[j].email /= Get(SourceOf(results[j]).email, <<>>)
            => PassesValidator(results[j].email)

\* a business without email whose result carries an adopted email
C11_Witness ==
    \E j \in DOMAIN results :
        /\ ~ HasEmail(SourceOf(results[j]))
        /\ results[j].email = EmailVentas

\* C12: in every outcome, emails_found has no duplicates and only addresses
\* that pass is_valid_email, and phones_found has no duplicates and only
\* strings that normalize_phone maps to themselves.
C12_FoundListsClean ==
    \A j \in DOMAIN results :
        LET vr == results[j].verification_results
        IN  /\ NoDuplicates(vr.emails_found)
            /\ \A i \in DOMAIN vr.emails_found : PassesValidator(vr.emails_found[i])
            /\ NoDuplicates(vr.phones_found)
            /\ \A i \in DOMAIN vr.phones_found :
                   normalize_phone(vr.phones_found[i]) = vr.phones_found[i]

\* an address shown on two pages and beside a rejected one is found once,
\* and another outcome lists two phones
C12_Witness ==
    \E j, k \in DOMAIN results :
        /\ SourceOf(results[j]) = BusinessVerify
        /\ EmailNoreply \in CandidatesOnPages(SiteA)
        /\ results[j].verification_results.emails_found = <<EmailContacto>>
        /\ Len(results[k].verification_results.phones_found) = 2

\* per page that loads, the normalization of each whole matched number:
\* the captured prefix followed by the 9-digit body
WholeNumbers ==
    [url \in KnownUrls |->
        IF Web(url).status /= "ok" THEN {}
        ELSE {normalize_phone(JoinGroups(Web(url).phones[i]) \o Web(url).phones[i].body) :
                 i \in DOMAIN Web(url).phones}]

\* C13: for every page a worker visited, the phones the extractor returned
\* are the normalizations of the whole matched numbers, each of which has its
\* 9-digit body.
C13_WholeNumberExtracted ==
    \A w \in Tasks :
        \A url \in Range(worker[w].result.verification_results.pages_checked) :
            /\ PageContacts[url].phones = WholeNumbers[url]
            /\ \A phone \in PageContacts[url].phones : Len(phone) >= Len(Body612)

\* the phone the worker read from its business: normalize_phone(business.get('telefono', ''))
CurrentPhone(b) == normalize_phone(Get(b.telefono, <<>>))

C15_NormalizeIdempotent ==
    (call.fn = "normalize_phone" /\ call.calls = 2) => call.again = call.ret

\* a phone that normalize_phone rewrote was normalized a second time
C15_Witness ==
    /\ call.fn = "normalize_phone"
    /\ call.calls = 2
    /\ Truthy(call.arg)
    /\ call.ret /= call.arg
    /\ call.again = call.ret

\* a string without whitespace, hyphens and parentheses
Stripped(x) == SelectSeq(x, LAMBDA c : c \notin {" ", "\t", "\n", "\r", "-", "(", ")"})

\* C16: for a string argument, with s the argument stripped of whitespace,
\* hyphens and parentheses, normalize_phone returns +34 and the rest of s
\* after a leading 0034; else +34 and the rest of s after a leading 34 when
\* s has 11 or more characters; else +34 and s when s has 9 characters and
\* does not start with +34; else s.
C16_NormalizeCases ==
    (call.fn = "normalize_phone" /\ call.calls >= 1 /\ call.arg /= None)
        => LET s == Stripped(call.arg)
           IN  call.ret =
                   IF StartsWith(s, <<"0","0","3","4">>)
                       THEN <<"+","3","4">> \o SubSeq(s, 5, Len(s))
                   ELSE IF StartsWith(s, <<"3","4">>) /\ Len(s) >= 11
                       THEN <<"+","3","4">> \o SubSeq(s, 3, Len(s))
                   ELSE IF Len(s) = 9 /\ ~ StartsWith(s, <<"+","3","4">>)
                       THEN <<"+","3","4">> \o s
                   ELSE s

\* a 9-character string that starts with 0034 had its 0034 rewritten
C16_Witness ==
    /\ call.fn = "normalize_phone"
    /\ call.calls >= 1
    /\ call.arg = <<"0","0","3","4","1","2","3","4","5">>
    /\ call.ret = <<"+","3","4","1","2","3","4","5">>

InfoExampleBusiness == <<"i","n","f","o","@","e","x","a","m","p","l","e","b","u","s","i","n","e","s","s",".","e","s">>

\* C17: is_valid_email("info@examplebusiness.es") is True.
C17_ExampleBusinessAccepted ==
    (call.fn = "is_valid_email" /\ call.calls = 1 /\ call.arg = InfoExampleBusiness)
        => call.ret = TRUE

\* the domain of an address, in lower case
AddressDomain(address) == Lower(LastPart(address, "@"))

\* the domain is a technical domain or a subdomain of one
TechnicalDomain(domain) ==
    \E entry \in technical_domains :
        \/ domain = entry
        \/ /\ Len(domain) > Len(entry) + 1
           /\ SubSeq(domain, Len(domain) - Len(entry), Len(domain)) = <<".">> \o entry

\* the local part is made of 20 or more lower-case letters and digits
LongAlnumLocal(address) ==
    LET local == FirstPart(address, "@")
    IN  Len(local) >= 20 /\ \A i \in DOMAIN local : local[i] \in LowerAlnumChars

\* C18: is_valid_email returns False for an address whose domain is a
\* technical domain or a subdomain of one, and for an address whose local
\* part is 20 or more lower-case alphanumeric characters.
C18_TechnicalRejected ==
    (/\ call.fn = "is_valid_email"
     /\ call.calls = 1
     /\ Contains(call.arg, <<"@">>)
     /\ TechnicalDomain(AddressDomain(call.arg)) \/ LongAlnumLocal(call.arg))
        => call.ret = FALSE

\* an ordinary local part at a subdomain of a technical domain was rejected
C18_Witness ==
    /\ call.fn = "is_valid_email"
    /\ call.calls = 1
    /\ call.arg = <<"i","n","f","o","@","m","a","i","l",".","s","e","n","d","g","r","i","d",".","c","o","m">>
    /\ TechnicalDomain(AddressDomain(call.arg))
    /\ call.ret = FALSE

\* C19 as stated: a run that found email_negocios_zoneA.json in the data
\* directory does not process negocios_zoneA.json.
C19_SkipsZoneA ==
    (batch = "running" /\ EmailNegociosZoneA \in email_files)
        => NegociosZoneA \notin Range(files_to_process)

\* C19, amended: a run that found email_zoneA.json in the data directory
\* does not process negocios_zoneA.json.
C19_SkipsZoneAByOutputName ==
    (batch = "running" /\ EmailZoneA \in email_files)
        => NegociosZoneA \notin Range(files_to_process)

\* a run over a directory holding negocios_zoneA.json and email_zoneA.json
\* that has other files to process
C19_Witness ==
    /\ batch = "running"
    /\ EmailZoneA \in email_files
    /\ NegociosZoneA \in data_dir
    /\ files_to_process /= <<>>
    /\ NegociosZoneA \notin Range(files_to_process)

\* C20: the output name written for an input file is mapped back to the
\* name of that input file, and no file still to be processed by a run was
\* processed and persisted by an earlier run.
C20_PersistedExcluded ==
    /\ \A f \in persisted : OriginalName(OutputName(f)) = f
    /\ \A i \in (file_pos + 1)..Len(files_to_process) :
           files_to_process[i] \notin persisted

\* the file process_single_file is working on
CurrentFile == input_files[file_idx]

\* process_single_file is between its load and its return
InFile == opc \in {"init", "create", "sleep", "gather", "cleanup", "write"}

\* C21: for an input array of n >= 2 elements, the element at index 0 is
\* never passed to a worker and never appears in the output, and each of
\* the elements at indices 1..n-1 is passed to exactly one worker task:
\* task w works on the element at index w, tasks exist for a prefix of
\* 1..n-1 that is all of 1..n-1 once the loop is over, and every result
\* comes from one of these elements, none from the element at index 0
C21_FirstDroppedRestOnce ==
    InFile =>
        /\ Len(CurrentFile) >= 2
        /\ tasks <= Len(CurrentFile) - 1
        /\ \A w \in Tasks : worker[w].pc /= "none" <=> w <= tasks
        /\ \A w \in 1..tasks : businesses[w] = CurrentFile[w + 1]
        /\ opc \in {"gather", "cleanup", "write"} => tasks = Len(CurrentFile) - 1
        /\ \A j \in DOMAIN results :
              /\ results[j].task \in 1..tasks
              /\ results[j].nombre = CurrentFile[results[j].task + 1].nombre
              /\ results[j].nombre /= CurrentFile[1].nombre
        /\ opc = "write" =>
              \A w \in 1..(Len(CurrentFile) - 1) :
                  Cardinality({j \in DOMAIN results : results[j].task = w}) = 1

\* a file of three elements is about to be written with two results
C21_Witness ==
    /\ opc = "write"
    /\ Len(CurrentFile) = 3
    /\ Len(results) = 2

\* the summary of the current file has been logged and no other file was
\* taken since
FileReported ==
    /\ opc \in {"next", "finished"}
    /\ outputs /= <<>>
    /\ outputs[Len(outputs)].file = file_idx

\* the businesses whose source record had no email and whose result record
\* has a non-empty one
GainedEmail ==
    {w \in DOMAIN businesses :
        /\ ~HasEmail(businesses[w])
        /\ \E j \in DOMAIN results : results[j].task = w /\ Truthy(results[j].email)}

\* C22: the new-email count reported for a file equals the number of
\* businesses whose source record had no email and whose result record has
\* a non-empty email, for every completion order of the workers
C22_NewEmailCount ==
    FileReported => outputs[Len(outputs)].new_emails = Cardinality(GainedEmail)

\* the URLs of the contact paths of a website, in the configured order
ResolvedTable ==
    [website \in Websites |->
        [p \in DOMAIN contact_paths |-> urljoin(RStripSlash(website), contact_paths[p])]]

ResolvedPaths(website) == ResolvedTable[website]

\* the paths of a website whose visit fails
FailingTable ==
    [website \in Websites |->
        {p \in DOMAIN contact_paths : Web(ResolvedTable[website][p]).status /= "ok"}]

FailingPaths(website) == FailingTable[website]

\* per website, what the phone pattern's groups give on its pages that load
PhonesTable ==
    [website \in Websites |->
        UNION {{normalize_phone(JoinGroups(Web(u).phones[i])) : i \in DOMAIN Web(u).phones} :
                  u \in {v \in VisitedUrls(website) : Web(v).status = "ok"}}]

\* C23: a failure on one contact path (timeout, missing response, status
\* >= 400, content error) contributes nothing for that path and does not
\* stop the worker: in every outcome of a worker that visited a site with a
\* failing path, every path of the list was attempted, the found lists hold
\* exactly what the other paths gave, and the error is None (or comes from
\* the reconciliation of an email that is not a string)
C23_PathFailureContained ==
    \A j \in DOMAIN results :
        LET r  == results[j]
            vr == r.verification_results
        IN  (/\ Truthy(r.sitio_web)
             /\ FailingPaths(r.sitio_web) /= {}
             /\ vr.pages_checked /= <<>>)
            => /\ vr.pages_checked = ResolvedPaths(r.sitio_web)
               /\ Range(vr.emails_found) = AcceptedOnPages(r.sitio_web)
               /\ Range(vr.phones_found) = PhonesTable[r.sitio_web]
               /\ vr.error \in {"None", "reconcile"}
               /\ vr.error = "reconcile" => SourceOf(r).email = NonStr

\* a site with a failing path before its last one gave contacts on other
\* paths, and a site whose every path fails gave none: both outcomes have
\* no error
C23_Witness ==
    \E j, k \in DOMAIN results :
        /\ SourceOf(results[j]) = BusinessVerify
        /\ 3 \in FailingPaths(SiteA)
        /\ EmailVentas \in Range(Web(ResolvedPaths(SiteA)[3]).emails)
        /\ results[j].verification_results.emails_found = <<EmailContacto>>
        /\ results[j].verification_results.error = "None"
        /\ SourceOf(results[k]) = BusinessDown
        /\ FailingPaths(SiteC) = DOMAIN contact_paths
        /\ Len(results[k].verification_results.pages_checked) = Len(contact_paths)
        /\ results[k].verification_results.error = "None"

\* where the body of a returned worker raised, read from what the worker
\* left behind: no context was created, no page was created, or the email
\* to reconcile is not a string
RaisedAt(w) ==
    IF worker[w].context = "none" THEN "new_context"
    ELSE IF worker[w].page = "none" THEN "new_page"
    ELSE IF businesses[w].email = NonStr THEN "reconcile"
    ELSE "None"

\* C24: when an exception occurs in a worker after the no-website check
\* (creating the context or the page, reconciling), it does not leave the
\* worker: the returned worker has exactly one record in the results, whose
\* error names the failed step and which holds the pages_checked and found
\* lists recorded so far (none before the loop, all of them after it) and
\* the business as it was read
C24_ExceptionRecorded ==
    \A w \in 1..tasks :
        (worker[w].pc = "done" /\ Truthy(businesses[w].sitio_web) /\ RaisedAt(w) /= "None")
        => /\ Cardinality({j \in DOMAIN results : results[j].task = w}) = 1
           /\ \A j \in DOMAIN results :
                 results[j].task = w =>
                    LET r  == results[j]
                        vr == r.verification_results
                    IN  /\ vr.error = RaisedAt(w)
                        /\ r.nombre = businesses[w].nombre
                        /\ r.email = Get(businesses[w].email, <<>>)
                        /\ r.telefono = businesses[w].telefono
                        /\ ~ vr.email_verified
                        /\ ~ vr.phone_verified
                        /\ IF RaisedAt(w) = "reconcile"
                           THEN /\ vr.pages_checked = ResolvedPaths(r.sitio_web)
                                /\ Range(vr.emails_found) = AcceptedOnPages(r.sitio_web)
                                /\ Range(vr.phones_found) = PhonesTable[r.sitio_web]
                           ELSE /\ vr.pages_checked = <<>>
                                /\ vr.emails_found = <<>>
                                /\ vr.phones_found = <<>>

\* one worker failed to create its page and another failed in the
\* reconciliation after finding contacts: both are in the results
C24_Witness ==
    \E j, k \in DOMAIN results :
        /\ results[j].verification_results.error = "new_page"
        /\ results[k].verification_results.error = "reconcile"
        /\ results[k].verification_results.emails_found /= <<>>
        /\ processed_count = 2

\* the files process_all_files has written an output for
Written == {outputs[k].file : k \in DOMAIN outputs}

\* C25: a file-level failure (unreadable or malformed input, an exception
\* inside process_single_file) stops the processing of that file only: the
\* step that follows the failure is the teardown of the browser pool (every
\* browser of self.browsers closed, the engine stopped if it was started),
\* after which process_all_files is at the same position of its loop; the
\* loop takes the pending files one by one and ends only after the last one
C25_FileFailureContained ==
    [][/\ opc = "failed" =>
            /\ opc' = "next"
            /\ file_idx' = file_idx
            /\ input_files' = input_files
            /\ browsers' = <<>>
            /\ closed' = closed \cup Range(browsers)
            /\ playwright' = IF playwright = "none" THEN "none" ELSE "stopped"
       /\ (opc = "next" /\ file_idx < Len(input_files)) => file_idx' = file_idx + 1
       /\ opc' = "finished" => file_idx' = Len(input_files)]_vars

\* the first file had businesses and failed (nothing was written for it),
\* and the second file has been processed and is about to be written
C25_Witness ==
    /\ opc = "write"
    /\ file_idx = 2
    /\ Len(input_files[1]) > 1
    /\ 1 \notin Written
    /\ Len(results) = Len(input_files[2]) - 1

\* an upper bound on the steps a worker still has to take
WorkerSteps(w) ==
    CASE worker[w].pc \in {"none", "done"} -> 0
      [] worker[w].pc = "close_context" -> 1
      [] worker[w].pc = "close_page" -> 2
      [] worker[w].pc = "reconcile" -> 3
      [] worker[w].pc = "visit" -> 4 + Len(contact_paths) - worker[w].path
      [] worker[w].pc = "new_page" -> 4 + Len(contact_paths)
      [] worker[w].pc = "new_context" -> 5 + Len(contact_paths)
      [] worker[w].pc = "queue_get" -> 6 + Len(contact_paths)
      [] worker[w].pc = "get_browser" -> 7 + Len(contact_paths)
      [] worker[w].pc = "new" -> 8 + Len(contact_paths)

\* an upper bound on the steps of a task from its creation on, creation included
TaskSteps == 11 + Len(contact_paths)

SumSteps[n \in 0..MaxBusinesses] == IF n = 0 THEN 0 ELSE SumSteps[n - 1] + WorkerSteps(n)

\* an upper bound on the steps process_single_file still has to take
FileSteps ==
    CASE opc = "finished" -> 0
      [] opc = "next" -> 1
      [] opc \in {"failed", "write"} -> 2
      [] opc = "cleanup" -> 3
      [] opc = "gather" -> 4
      [] opc = "create" -> 5 + TaskSteps * (Len(businesses) - tasks)
      [] opc = "sleep" -> 6 + TaskSteps * (Len(businesses) - tasks)
      [] opc = "init" -> 6 + TaskSteps * Len(businesses) + (max_browsers - Len(browsers))

\* more than the steps one file can take
StepsPerFile == 10 + MaxBrowsers + 2 * TaskSteps * MaxBusinesses

\* an upper bound on the steps left in the run
StepsLeft ==
    StepsPerFile * (Len(input_files) - file_idx) + FileSteps + SumSteps[MaxBusinesses]

\* a worker that leaves its wait for a browser has been given one
ServedOnLeaving ==
    \A w \in Tasks :
        (/\ worker[w].pc \in {"get_browser", "queue_get"}
         /\ worker'[w].pc \notin {"get_browser", "queue_get"})
        => worker'[w].browser /= 0

\* process_single_file is past initialize_browsers
LoopStarted == opc \in {"create", "sleep", "gather", "cleanup", "write"}

\* once the task loop has started, process_single_file is left only by
\* writing the output of the file
LeavesThroughWrite ==
    LoopStarted =>
        \/ LoopStarted'
        \/ (opc = "write" /\ opc' = "next" /\ \E k \in DOMAIN outputs' : outputs'[k].file = file_idx)

\* some step of the program can be taken. A worker inside the loop over the
\* contact paths or at the reconciliation can always take its step (a
\* navigation returns or times out); for every other step the guard of the
\* action decides
CanStep ==
    \/ \E w \in Tasks : Running /\ worker[w].pc \in {"visit", "reconcile"}
    \/ ENABLED LoadFile \/ ENABLED SkipFile \/ ENABLED ReadFail
    \/ ENABLED Launch \/ ENABLED LaunchFail
    \/ ENABLED CreateTask \/ ENABLED Wake \/ ENABLED Gather \/ ENABLED GatherDone
    \/ ENABLED Cleanup \/ ENABLED CleanupAfterError \/ ENABLED WriteOutput \/ ENABLED Finish
    \/ \E w \in Tasks :
          \/ ENABLED NoWebsite(w) \/ ENABLED EnterGate(w)
          \/ ENABLED GetBrowser(w) \/ ENABLED QueueGet(w)
          \/ ENABLED NewContext(w) \/ ENABLED NewContextFail(w)
          \/ ENABLED NewPage(w) \/ ENABLED NewPageFail(w)
          \/ ENABLED ClosePage(w) \/ ENABLED CloseContext(w)

\* C26: no deadlock and completion, for every max_concurrent_workers >= 1
\* and max_browsers >= 1, with more workers than browsers included. As long
\* as process_all_files has not finished some step can be taken, and every
\* step lowers a bound on the steps left, so the steps that can be taken are
\* eventually taken and the run ends; a worker leaves its wait for a browser
\* only with a browser in hand; the teardown is reached only with every task
\* of the file done; a file whose task loop has started leaves
\* process_single_file only through the teardown and the write of its output
C26_Completion ==
    /\ [](opc = "finished" \/ CanStep)
    /\ [][StepsLeft' < StepsLeft]_vars
    /\ [][ServedOnLeaving]_vars
    /\ [](opc \in {"cleanup", "write"} =>
            (tasks = Len(businesses) /\ \A w \in 1..tasks : worker[w].pc = "done"))
    /\ [][LeavesThroughWrite]_vars

\* more worker slots than browsers: two workers of a file that has been
\* written were served the same browser, one after the other
C26_Witness ==
    /\ max_concurrent_workers > max_browsers
    /\ file_idx \in Written
    /\ \E w1, w2 \in Tasks :
          /\ w1 /= w2
          /\ worker[w1].pc = "done"
          /\ worker[w2].pc = "done"
          /\ worker[w1].got /= 0
          /\ worker[w1].got = worker[w2].got

\* s is a prefix of t
IsPrefix(s, t) == Len(s) <= Len(t) /\ \A i \in DOMAIN s : s[i] = t[i]

\* the pages_checked of a record are the first URLs of the resolved list
\* of its website, or none when it has no website
PagesInOrder(r) ==
    LET pages == r.verification_results.pages_checked
    IN  IF Truthy(r.sitio_web)
        THEN /\ Len(pages) <= Len(contact_paths)
             /\ IsPrefix(pages, ResolvedPaths(r.sitio_web))
        ELSE pages = <<>>

\* C27: in every outcome, and at every moment of a worker, pages_checked
\* has at most as many entries as contact_paths and is a prefix of the URLs
\* obtained by resolving the paths in order against the site's base URL:
\* the paths are attempted in the configured order, none twice, none
\* skipped
C27_PagesInOrder ==
    /\ \A w \in Tasks : PagesInOrder(worker[w].result)
    /\ \A j \in DOMAIN results : PagesInOrder(results[j])

\* one worker is in the middle of the list, three paths attempted, while
\* the outcome of another lists all of them
C27_Witness ==
    /\ \E w \in Tasks :
          /\ worker[w].pc = "visit"
          /\ Len(worker[w].result.verification_results.pages_checked) = 3
    /\ \E j \in DOMAIN results :
          Len(results[j].verification_results.pages_checked) = Len(contact_paths)

\* C28: at every point where another task can observe the shared state,
\* processed_count equals the length of results, verified_emails_count the
\* number of entries of results with a non-empty email and email_verified
\* True, and verified_phones_count the number of entries with
\* phone_verified True
C28_CountersMatchResults ==
    /\ processed_count = Len(results)
    /\ verified_emails_count =
          Cardinality({j \in DOMAIN results :
                          /\ Truthy(results[j].email)
                          /\ results[j].verification_results.email_verified})
    /\ verified_phones_count =
          Cardinality({j \in DOMAIN results : results[j].verification_results.phone_verified})

\* in the second file of a run, after the reset, while a worker is still at
\* work: the results hold one entry with a verified email and the counters
\* have been raised for it
C28_Witness ==
    /\ file_idx = 2
    /\ 1 \in Written
    /\ \E w \in Tasks : InBody(w)
    /\ processed_count = 1
    /\ verified_emails_count = 1
    /\ results[1].verification_results.email_verified

\* C29: the progress lock is never held by a task while that task is
\* suspended: a state of the model is a point at which every task is
\* suspended or has not started, and in none of them is progress_lock held,
\* so that no task ever finds it taken
C29_LockNeverHeldSuspended == progress_lock = "free"

\* an outcome has been recorded under the lock while another worker is
\* suspended in the middle of its navigations
C29_Witness ==
    /\ Len(results) = 1
    /\ \E w \in Tasks : worker[w].pc = "visit" /\ worker[w].path > 1

\* what a step that runs cleanup_browsers does
TeardownStep ==
    opc \in {"cleanup", "failed"} =>
        /\ closed' = closed \cup Range(browsers)
        /\ browsers' = <<>>
        /\ playwright' = (IF playwright = "none" THEN "none" ELSE "stopped")
        /\ opc' = (IF opc = "cleanup" THEN "write" ELSE "next")

\* C30: cleanup_browsers attempts to close every browser launched for the
\* current file and then to stop the engine; a close that fails prevents
\* neither the other closes nor the stop, and no failure leaves
\* cleanup_browsers, the call before the engine was started included: a
\* step that runs it calls close() on every browser of self.browsers,
\* empties the list, leaves the engine stopped (or never started), and
\* process_single_file goes on after the call
C30_TeardownBestEffort == [][TeardownStep]_vars

\* the close() of the first browser of the list raised, and the second
\* browser was closed and the engine stopped all the same
C30_Witness ==
    /\ opc = "write"
    /\ browsers = <<>>
    /\ playwright = "stopped"
    /\ \E b1, b2 \in closed :
          /\ b1 < b2
          /\ b1 \in close_failed
          /\ b2 \notin close_failed

\* C31: a browser handed out by get_browser has never been closed by an
\* earlier cleanup_browsers: no worker holds an instance on which close()
\* was called
C31_NoClosedBrowserHandedOut ==
    \A w \in Tasks : Holding(w) => worker[w].browser \notin closed

\* C32: on the normal path of process_single_file, cleanup_browsers starts
\* only after every worker task of the file has finished: when the teardown
\* is about to begin every business has its task, every task has returned,
\* no worker holds a borrowed browser and none waits in get_browser
C32_TeardownAfterWorkers ==
    opc = "cleanup" =>
        /\ tasks = Len(businesses)
        /\ \A w \in 1..tasks : worker[w].pc = "done"
        /\ \A w \in Tasks :
              /\ ~ Holding(w)
              /\ worker[w].pc \notin {"get_browser", "queue_get"}

\* the teardown is about to begin for a file of two businesses whose
\* workers both had borrowed a browser
C32_Witness ==
    /\ opc = "cleanup"
    /\ tasks = 2
    /\ \A w \in 1..tasks : worker[w].got /= 0

\* a phone that, written without whitespace, hyphens and parentheses, has
\* nine consecutive digits
HasNineDigitBody(phone) ==
    LET s == Stripped(phone)
    IN  \E i \in 1..Len(s) :
            /\ i + 8 <= Len(s)
            /\ \A k \in i..(i + 8) : s[k] \in DigitChars

\* C33: in every outcome with phone_verified set, the record's telefono is a
\* non-empty string that has a 9-digit body and whose normalization is among
\* the outcome's phones_found: no phone is marked verified while telefono is
\* left or set to an empty or prefix-only value
C33_VerifiedPhoneIsWhole ==
    \A j \in DOMAIN results :
        LET r == results[j]
        IN  r.verification_results.phone_verified
                => /\ Truthy(r.telefono)
                   /\ HasNineDigitBody(r.telefono)
                   /\ normalize_phone(r.telefono) \in Range(r.verification_results.phones_found)

\* C34: in every outcome with email_verified set, the record's email is
\* non-empty and its lower-cased form is among the outcome's emails_found;
\* in every outcome whose error was set by the no-website path, neither
\* email_verified nor phone_verified is set
C34_VerifiedEmailWasFound ==
    \A j \in DOMAIN results :
        LET r  == results[j]
            vr == r.verification_results
        IN  /\ vr.email_verified
                  => /\ Truthy(r.email)
                     /\ Lower(r.email) \in Range(vr.emails_found)
            /\ vr.error = "No hay website"
                  => (~ vr.email_verified /\ ~ vr.phone_verified)

\* an email written in mixed case is marked verified, its lower-cased form
\* among the emails found, next to an outcome of the no-website path
C34_Witness ==
    \E j, k \in DOMAIN results :
        /\ results[j].verification_results.email_verified
        /\ Lower(results[j].email) /= results[j].email
        /\ Lower(results[j].email) \in Range(results[j].verification_results.emails_found)
        /\ results[k].verification_results.error = "No hay website"
        /\ Truthy(results[k].email)

\* per website, the accepted email met first when the paths are visited in
\* the order of contact_paths and each page is read from its start
FirstAcceptedTable ==
    [website \in Websites |->
        LET Accepted(p) ==
                LET page == Web(urljoin(RStripSlash(website), contact_paths[p]))
                IN  IF page.status /= "ok" THEN <<>>
                    ELSE SelectSeq([i \in DOMAIN page.emails |-> Lower(page.emails[i])],
                                   is_valid_email)
            hits == {p \in DOMAIN contact_paths : Accepted(p) /= <<>>}
        IN  IF hits = {} THEN None
            ELSE Accepted(CHOOSE p \in hits : \A q \in hits : p <= q)[1]]

\* C35: for a business without a pre-existing email whose pages show
\* accepted emails, the adopted email is the accepted email met first in
\* visit order (earliest contact path, earliest position in the page), the
\* same in every run over the same business and pages
C35_AdoptsFirstInVisitOrder ==
    \A j \in DOMAIN results :
        LET r == results[j]
            b == SourceOf(r)
        IN  (/\ ~ HasEmail(b)
             /\ Truthy(b.sitio_web)
             /\ r.verification_results.error = "None"
             /\ AcceptedOnPages(b.sitio_web) /= {})
                => r.email = FirstAcceptedTable[b.sitio_web]

\* a run starts: every file the previous run had to process and that no run
\* has written an output for is to be processed again
SkippedStillPending ==
    runs' = runs + 1
        => (\A f \in Range(files_to_process) :
                f \notin persisted => f \in Range(files_to_process'))

\* C36: an input file whose array has 0 or 1 elements is skipped without
\* side effects, no output file being written for it, so that every later
\* run of process_all_files reports it as pending again
C36_SkippedStaysPending == [][SkippedStillPending]_vars

\* C37: no business written by the discovery step is lost by the
\* verification loader: when the results of a scanned file are about to be
\* written, every element of the file, the one at index 0 included, is the
\* source of one of the results
C37_NoDiscoveredBusinessLost ==
    opc = "write" =>
        \A i \in DOMAIN CurrentFile :
            \E j \in DOMAIN results :
                /\ results[j].task = i - 1
                /\ results[j].nombre = CurrentFile[i].nombre

====
